---- MODULE Spec2Model ----
(***************************************************************************)
(* firefront-gis: the region adjacency graph (gis_operation/regions.rs),   *)
(* the project canvas (gis_operation/mod.rs) and the tile slicer           *)
(* (gis_operation/slicing.rs, utils.rs) as state machines.                 *)
(*                                                                         *)
(* Coordinates are integers (metres).  A polygon is an axis-parallel      *)
(* rectangle given by its ring of five points, as BoundingBox::to_wkt      *)
(* writes it; the GDAL predicates are modelled on closed rectangles.       *)
(***************************************************************************)
EXTENDS Integers, Sequences, FiniteSets, TLC

VARIABLES
    dataset,    \* resources/regions.geojson: the source dataset of all regions
    files,      \* the graph cache artifacts on disk, by path
    last,       \* the last regions.rs call: its arguments, the disk before it, its result
    config,     \* CONFIG (app_setup.rs): resolution and slice_factor
    project,    \* the project raster <name>.tiff written by create_project
    lastc,      \* the last canvas / export call and its result
    lastl,      \* the last layer call (layers.rs, processing.rs) and its result
    tmp,        \* the regional artifacts in the temp directory, by the build that wrote them
    lastb,      \* the last build (create_project_com) and its result
    builds,     \* the builds under way: each one's position in create_project_com
    tmpdir,     \* the files of the temp directory "tmp", by path: who wrote each
    settings    \* CONFIG's user settings (output_location, gdal_path)

vars == <<dataset, files, last, config, project, lastc, lastl, tmp, lastb, builds, tmpdir,
          settings>>

----------------------------------------------------------------------------
(* Bounds *)

\* the longest feature collection of the source dataset
MaxFeatures == 2

----------------------------------------------------------------------------
(* Geometry primitives *)

SetMin(S) == CHOOSE x \in S : \A y \in S : x <= y
SetMax(S) == CHOOSE x \in S : \A y \in S : x >= y

\* a gdal Geometry: an empty polygon or the closed rectangle [x1,x2] x [y1,y2]
EmptyGeometry == [kind |-> "empty", x1 |-> 0, y1 |-> 0, x2 |-> 0, y2 |-> 0]
Polygon(x1, y1, x2, y2) == [kind |-> "polygon", x1 |-> x1, y1 |-> y1, x2 |-> x2, y2 |-> y2]

\* the closed ring of five points of a rectangle, last = first
Ring(x1, y1, x2, y2) == << <<x1, y1>>, <<x2, y1>>, <<x2, y2>>, <<x1, y2>>, <<x1, y1>> >>

\* a ring is read back as the rectangle it bounds; anything that is not a
\* closed ring of five points is not a polygon
RingIsValid(ring) == Len(ring) = 5 /\ ring[1] = ring[5]
RingToGeometry(ring) ==
    LET xs == {ring[i][1] : i \in 1..Len(ring)}
        ys == {ring[i][2] : i \in 1..Len(ring)}
    IN  Polygon(SetMin(xs), SetMin(ys), SetMax(xs), SetMax(ys))

\* Geometry::wkt and Geometry::from_wkt
geom_wkt(g) ==
    IF g.kind = "empty" THEN [text |-> "POLYGON EMPTY", ring |-> <<>>]
    ELSE [text |-> "POLYGON", ring |-> Ring(g.x1, g.y1, g.x2, g.y2)]

from_wkt(w) ==
    IF w.text = "POLYGON EMPTY" THEN [ok |-> TRUE, geom |-> EmptyGeometry]
    ELSE IF w.text = "POLYGON" /\ RingIsValid(w.ring)
         THEN [ok |-> TRUE, geom |-> RingToGeometry(w.ring)]
         ELSE [ok |-> FALSE, geom |-> EmptyGeometry]

\* Geometry::from_geojson on a feature's geometry object
from_geojson(gj) ==
    IF gj.type = "Polygon" /\ gj.coordinates = <<>> THEN [ok |-> TRUE, geom |-> EmptyGeometry]
    ELSE IF gj.type = "Polygon" /\ RingIsValid(gj.coordinates)
         THEN [ok |-> TRUE, geom |-> RingToGeometry(gj.coordinates)]
         ELSE [ok |-> FALSE, geom |-> EmptyGeometry]

\* Geometry::intersects: the two closed point sets share a point
Intersects(g, h) ==
    /\ g.kind = "polygon" /\ h.kind = "polygon"
    /\ g.x1 <= h.x2 /\ h.x1 <= g.x2
    /\ g.y1 <= h.y2 /\ h.y1 <= g.y2

\* Geometry::touches: they share a point, and no point of both interiors
Touches(g, h) ==
    /\ Intersects(g, h)
    /\ ~(g.x1 < h.x2 /\ h.x1 < g.x2 /\ g.y1 < h.y2 /\ h.y1 < g.y2)

\* BoundingBox (utils.rs)
BoundingBox(xmin, ymin, xmax, ymax) == [xmin |-> xmin, ymin |-> ymin, xmax |-> xmax, ymax |-> ymax]
bb_width(bb) == bb.xmax - bb.xmin
bb_height(bb) == bb.ymax - bb.ymin
bb_to_wkt(bb) == [text |-> "POLYGON", ring |-> Ring(bb.xmin, bb.ymin, bb.xmax, bb.ymax)]
bb_to_geometry(bb) == from_wkt(bb_to_wkt(bb))

----------------------------------------------------------------------------
(* Region and the region map *)

EmptyMap == [c \in {} |-> c]
MapPut(m, k, v) == [c \in (DOMAIN m) \cup {k} |-> IF c = k THEN v ELSE m[c]]

Region_new(code, name, extent) ==
    [code |-> code, name |-> name, extent |-> extent, neighbors |-> <<>>]

SeqContains(s, x) == \E i \in 1..Len(s) : s[i] = x

\* Region::add_neighbor: push unless already listed
add_neighbor(region, neighbor_code) ==
    IF SeqContains(region.neighbors, neighbor_code) THEN region
    ELSE [region EXCEPT !.neighbors = Append(@, neighbor_code)]

\* a slip: the box must lie within the extent
region_intersects_by_containment(region, bb) ==
    LET g == bb_to_geometry(bb)
    IN  IF g.ok
        THEN /\ region.extent.kind = "polygon"
             /\ region.extent.x1 <= g.geom.x1 /\ g.geom.x2 <= region.extent.x2
             /\ region.extent.y1 <= g.geom.y1 /\ g.geom.y2 <= region.extent.y2
        ELSE FALSE

\* Region::intersects(bounding_box)
region_intersects(region, bb) ==
    LET g == bb_to_geometry(bb)
    IN  IF g.ok THEN Intersects(region.extent, g.geom) ELSE FALSE

----------------------------------------------------------------------------
(* The source dataset: a GeoJSON feature collection *)

\* a property or a geometry the feature does not have
NoProperty == "<none>"

Feature(code, nom, geometry) == [code |-> code, nom |-> nom, geometry |-> geometry]
GeoJsonPolygon(x1, y1, x2, y2) == [type |-> "Polygon", coordinates |-> Ring(x1, y1, x2, y2)]
GeoJsonEmpty == [type |-> "Polygon", coordinates |-> <<>>]
GeoJsonUnconvertible == [type |-> "Polygon", coordinates |-> << <<0, 0>> >>]
NoGeometry == [type |-> NoProperty, coordinates |-> <<>>]

\* the features loop of build_regions_graph: a feature without code or
\* geometry, or whose geometry does not convert, is skipped; a later feature
\* with the same code replaces the earlier one (HashMap::insert)
RECURSIVE InsertFeatures(_, _)
InsertFeatures(regions_info, features) ==
    IF features = <<>> THEN regions_info
    ELSE LET feature == Head(features)
             name == IF feature.nom = NoProperty THEN feature.code ELSE feature.nom
             gdal_geom == from_geojson(feature.geometry)
         IN  IF feature.code = NoProperty THEN InsertFeatures(regions_info, Tail(features))
             ELSE IF feature.geometry = NoGeometry THEN InsertFeatures(regions_info, Tail(features))
             ELSE IF ~gdal_geom.ok THEN InsertFeatures(regions_info, Tail(features))
             ELSE InsertFeatures(
                    MapPut(regions_info, feature.code,
                           Region_new(feature.code, name, gdal_geom.geom)),
                    Tail(features))

\* regions_info.keys().cloned().collect(): the keys in the map's own order
Orderings(S) ==
    {s \in [1..Cardinality(S) -> S] : \A i, j \in 1..Cardinality(S) : i # j => s[i] # s[j]}

\* the pairs (i, j), i < j, of the all-pairs loop, in loop order
RECURSIVE PairsFrom(_, _, _)
PairsFrom(region_codes, i, j) ==
    IF i > Len(region_codes) THEN <<>>
    ELSE IF j > Len(region_codes) THEN PairsFrom(region_codes, i + 1, i + 2)
    ELSE << <<region_codes[i], region_codes[j]>> >> \o PairsFrom(region_codes, i, j + 1)

\* a slip: only geometries whose interiors overlap are paired
PairIsAdjacentByOverlap(geom_i, geom_j) ==
    Intersects(geom_i, geom_j) /\ ~Touches(geom_i, geom_j)

\* whether the loop body pushes the pair: intersects, else touches
PairIsAdjacent(geom_i, geom_j) ==
    IF Intersects(geom_i, geom_j) THEN TRUE ELSE Touches(geom_i, geom_j)

AdjacencyUpdates(region_codes, regions_info) ==
    LET Pushed(p) == PairIsAdjacent(regions_info[p[1]].extent, regions_info[p[2]].extent)
    IN  SelectSeq(PairsFrom(region_codes, 1, 2), Pushed)

\* a slip: the neighbour is recorded under its name, not its code
RECURSIVE ApplyUpdatesByName(_, _)
ApplyUpdatesByName(regions_info, adjacency_updates) ==
    IF adjacency_updates = <<>> THEN regions_info
    ELSE LET code_i == Head(adjacency_updates)[1]
             code_j == Head(adjacency_updates)[2]
             with_i == IF code_i \in DOMAIN regions_info
                       THEN [regions_info EXCEPT ![code_i] = add_neighbor(@, regions_info[code_j].name)]
                       ELSE regions_info
             with_j == IF code_j \in DOMAIN with_i
                       THEN [with_i EXCEPT ![code_j] = add_neighbor(@, regions_info[code_i].name)]
                       ELSE with_i
         IN  ApplyUpdatesByName(with_j, Tail(adjacency_updates))

\* a slip: the edge is recorded on the first region only
RECURSIVE ApplyUpdatesOneWay(_, _)
ApplyUpdatesOneWay(regions_info, adjacency_updates) ==
    IF adjacency_updates = <<>> THEN regions_info
    ELSE LET code_i == Head(adjacency_updates)[1]
             code_j == Head(adjacency_updates)[2]
             with_i == IF code_i \in DOMAIN regions_info
                       THEN [regions_info EXCEPT ![code_i] = add_neighbor(@, code_j)]
                       ELSE regions_info
         IN  ApplyUpdatesOneWay(with_i, Tail(adjacency_updates))

\* the second loop of build_regions_graph: each pair is added on both sides
RECURSIVE ApplyUpdates(_, _)
ApplyUpdates(regions_info, adjacency_updates) ==
    IF adjacency_updates = <<>> THEN regions_info
    ELSE LET code_i == Head(adjacency_updates)[1]
             code_j == Head(adjacency_updates)[2]
             with_i == IF code_i \in DOMAIN regions_info
                       THEN [regions_info EXCEPT ![code_i] = add_neighbor(@, code_j)]
                       ELSE regions_info
             with_j == IF code_j \in DOMAIN with_i
                       THEN [with_i EXCEPT ![code_j] = add_neighbor(@, code_i)]
                       ELSE with_i
         IN  ApplyUpdates(with_j, Tail(adjacency_updates))

\* the graph built from a feature collection, the keys visited as region_codes
BuildGraph(features, region_codes) ==
    LET regions_info == InsertFeatures(EmptyMap, features)
    IN  ApplyUpdates(regions_info, AdjacencyUpdates(region_codes, regions_info))

----------------------------------------------------------------------------
(* The cache artifact *)

NoPath == "<none>"
GraphPath == "resources/regions_graph.json"

AbsentFile == [kind |-> "absent", entries |-> EmptyMap]
\* a file that is not the JSON of a region map (a truncated write, for one)
CorruptFile == [kind |-> "corrupt", entries |-> EmptyMap]

\* serde_json::to_string_pretty(&regions_info): the extent goes out as WKT
Serialize(regions_info) ==
    [kind |-> "json",
     entries |-> [c \in DOMAIN regions_info |->
                    [code |-> regions_info[c].code,
                     name |-> regions_info[c].name,
                     extent |-> geom_wkt(regions_info[c].extent),
                     neighbors |-> regions_info[c].neighbors]]]

\* serde_json::from_str::<HashMap<String, Region>>: every extent is parsed
Deserialize(file) ==
    IF file.kind = "json" /\ \A c \in DOMAIN file.entries : from_wkt(file.entries[c].extent).ok
    THEN [ok |-> TRUE, err |-> "",
          graph |-> [c \in DOMAIN file.entries |->
                       [code |-> file.entries[c].code,
                        name |-> file.entries[c].name,
                        extent |-> from_wkt(file.entries[c].extent).geom,
                        neighbors |-> file.entries[c].neighbors]]]
    ELSE [ok |-> FALSE, err |-> "json", graph |-> EmptyMap]

\* load_regions_graph: the artifact at the fixed path, never rebuilt here
load_regions_graph ==
    IF files[GraphPath].kind = "absent"
    THEN [ok |-> FALSE, err |-> "Regions graph file not found", graph |-> EmptyMap]
    ELSE Deserialize(files[GraphPath])

----------------------------------------------------------------------------
(* The operations of regions.rs *)

NoBox == BoundingBox(0, 0, 0, 0)

\* the record of a call: arguments, the disk before the call, and the result;
\* built says whether the all-pairs step ran, graph is the map the call built
\* or loaded, regions the Vec<Region> it returned
CallRecord(op, output_file, region_id, bb, ok, err, built, graph, regions) ==
    [op |-> op, output_file |-> output_file, region_id |-> region_id, bb |-> bb,
     pre |-> files, ok |-> ok, err |-> err, built |-> built, graph |-> graph,
     regions |-> regions]

NoCall == [op |-> "none", output_file |-> NoPath, region_id |-> NoProperty, bb |-> NoBox,
           pre |-> [p \in {GraphPath} |-> AbsentFile], ok |-> TRUE, err |-> "",
           built |-> FALSE, graph |-> EmptyMap, regions |-> <<>>]

\* region_info.neighbors.iter().filter_map(|c| graph.get(c).cloned()).collect()
RECURSIVE FilterMapNeighbors(_, _)
FilterMapNeighbors(graph, neighbors) ==
    IF neighbors = <<>> THEN <<>>
    ELSE IF Head(neighbors) \in DOMAIN graph
         THEN <<graph[Head(neighbors)]>> \o FilterMapNeighbors(graph, Tail(neighbors))
         ELSE FilterMapNeighbors(graph, Tail(neighbors))

\* the loop of find_intersecting_regions over graph.values(), visited as order
IntersectingRegions(graph, order, bb) ==
    LET Hit(region) == region_intersects(region, bb)
    IN  SelectSeq([i \in 1..Len(order) |-> graph[order[i]]], Hit)

\* a slip: a cache that does not parse is treated like no cache
CacheUsable(output_file) ==
    /\ output_file # NoPath
    /\ files[output_file].kind # "absent"
    /\ Deserialize(files[output_file]).ok

\* if let Some(path) = &output_file { if Path::new(path).exists() { .. } }
CacheExists(output_file) ==
    /\ output_file # NoPath
    /\ files[output_file].kind # "absent"

build_regions_graph(output_file, write_ok) ==
    /\ IF CacheExists(output_file)
       THEN \* the cache exists: it is parsed, and nothing is built or written
            LET parsed == Deserialize(files[output_file])
            IN  /\ last' = CallRecord("build_regions_graph", output_file, NoProperty, NoBox,
                                      parsed.ok, parsed.err, FALSE, parsed.graph, <<>>)
                /\ UNCHANGED files
       ELSE IF dataset.kind = "absent"
       THEN /\ last' = CallRecord("build_regions_graph", output_file, NoProperty, NoBox,
                                  FALSE, "Input file not found", FALSE, EmptyMap, <<>>)
            /\ UNCHANGED files
       ELSE IF dataset.kind # "FeatureCollection"
       THEN /\ last' = CallRecord("build_regions_graph", output_file, NoProperty, NoBox,
                                  FALSE, "GeoJSON is not a FeatureCollection", FALSE,
                                  EmptyMap, <<>>)
            /\ UNCHANGED files
       ELSE \E region_codes \in Orderings(DOMAIN InsertFeatures(EmptyMap, dataset.features)) :
              LET regions_info == BuildGraph(dataset.features, region_codes)
              IN  IF output_file = NoPath
                  THEN /\ last' = CallRecord("build_regions_graph", output_file, NoProperty,
                                             NoBox, TRUE, "", TRUE, regions_info, <<>>)
                       /\ UNCHANGED files
                  ELSE IF write_ok
                  THEN /\ files' = [files EXCEPT ![output_file] = Serialize(regions_info)]
                       /\ last' = CallRecord("build_regions_graph", output_file, NoProperty,
                                             NoBox, TRUE, "", TRUE, regions_info, <<>>)
                  ELSE \* File::create truncated the file and write_all failed
                       /\ files' = [files EXCEPT ![output_file] = CorruptFile]
                       /\ last' = CallRecord("build_regions_graph", output_file, NoProperty,
                                             NoBox, FALSE, "io", TRUE, regions_info, <<>>)
    /\ UNCHANGED <<dataset, config, project, lastc, lastl, tmp, lastb, builds, tmpdir, settings>>

\* a slip: an unknown region code answers with no neighbours
get_neighbors_or_empty(region_id) ==
    /\ LET loaded == load_regions_graph
           graph == loaded.graph
       IN  IF ~loaded.ok
           THEN last' = CallRecord("get_neighbors", NoPath, region_id, NoBox,
                                   FALSE, loaded.err, FALSE, EmptyMap, <<>>)
           ELSE IF region_id \in DOMAIN graph
           THEN last' = CallRecord("get_neighbors", NoPath, region_id, NoBox, TRUE, "", FALSE,
                                   graph, FilterMapNeighbors(graph, graph[region_id].neighbors))
           ELSE last' = CallRecord("get_neighbors", NoPath, region_id, NoBox, TRUE, "", FALSE,
                                   graph, <<>>)
    /\ UNCHANGED <<dataset, files, config, project, lastc, lastl, tmp, lastb, builds, tmpdir, settings>>

get_neighbors(region_id) ==
    /\ LET loaded == load_regions_graph
           graph == loaded.graph
       IN  IF ~loaded.ok
           THEN last' = CallRecord("get_neighbors", NoPath, region_id, NoBox,
                                   FALSE, loaded.err, FALSE, EmptyMap, <<>>)
           ELSE IF region_id \in DOMAIN graph
           THEN last' = CallRecord("get_neighbors", NoPath, region_id, NoBox, TRUE, "", FALSE,
                                   graph, FilterMapNeighbors(graph, graph[region_id].neighbors))
           ELSE last' = CallRecord("get_neighbors", NoPath, region_id, NoBox, FALSE,
                                   "Region code not found in the graph", FALSE, graph, <<>>)
    /\ UNCHANGED <<dataset, files, config, project, lastc, lastl, tmp, lastb, builds, tmpdir, settings>>

get_region(region_id) ==
    /\ LET loaded == load_regions_graph
           graph == loaded.graph
       IN  IF ~loaded.ok
           THEN last' = CallRecord("get_region", NoPath, region_id, NoBox,
                                   FALSE, loaded.err, FALSE, EmptyMap, <<>>)
           ELSE IF region_id \in DOMAIN graph
           THEN last' = CallRecord("get_region", NoPath, region_id, NoBox, TRUE, "", FALSE,
                                   graph, <<graph[region_id]>>)
           ELSE last' = CallRecord("get_region", NoPath, region_id, NoBox, FALSE,
                                   "Region code not found in the graph", FALSE, graph, <<>>)
    /\ UNCHANGED <<dataset, files, config, project, lastc, lastl, tmp, lastb, builds, tmpdir, settings>>

find_intersecting_regions(bounding_box) ==
    /\ LET loaded == load_regions_graph
           graph == loaded.graph
       IN  IF ~loaded.ok
           THEN last' = CallRecord("find_intersecting_regions", NoPath, NoProperty,
                                   bounding_box, FALSE, loaded.err, FALSE, EmptyMap, <<>>)
           ELSE \E order \in Orderings(DOMAIN graph) :
                  last' = CallRecord("find_intersecting_regions", NoPath, NoProperty,
                                     bounding_box, TRUE, "", FALSE, graph,
                                     IntersectingRegions(graph, order, bounding_box))
    /\ UNCHANGED <<dataset, files, config, project, lastc, lastl, tmp, lastb, builds, tmpdir, settings>>

----------------------------------------------------------------------------
(* Inputs of the region graph *)

Codes == {"2A", "2B", "83"}
Nom(code) == IF code = "2A" THEN "Corse-du-Sud" ELSE NoProperty

\* two extents sharing the edge x = 2, and a third overlapping the second and
\* disjoint from the first
Extents == {GeoJsonPolygon(0, 0, 2, 2), GeoJsonPolygon(2, 0, 4, 2), GeoJsonPolygon(3, 1, 5, 3)}

FeatureChoices ==
    {Feature(c, Nom(c), g) :
        c \in Codes, g \in Extents \cup {GeoJsonEmpty, GeoJsonUnconvertible, NoGeometry}}
    \cup {Feature(NoProperty, NoProperty, GeoJsonPolygon(0, 0, 2, 2))}

\* the collections, up to the order of features of different codes: the
\* features loop depends on the order only where two features share a code
CodeRank(code) == CHOOSE r \in 0..3 :
    r = (IF code = NoProperty THEN 0 ELSE IF code = "2A" THEN 1 ELSE IF code = "2B" THEN 2 ELSE 3)

FeatureCollections ==
    {fc \in UNION {[1..n -> FeatureChoices] : n \in 0..MaxFeatures} :
        \A i \in 1..Len(fc) : \A j \in i..Len(fc) :
            CodeRank(fc[i].code) <= CodeRank(fc[j].code)}

Datasets ==
    {[kind |-> "absent", features |-> <<>>], [kind |-> "Feature", features |-> <<>>]}
    \cup {[kind |-> "FeatureCollection", features |-> fc] : fc \in FeatureCollections}

\* a box straddling the shared edge, one inside the first extent, one at the
\* corner of the second and inside the third, one outside every extent
QueryBoxes == {BoundingBox(1, 0, 3, 1), BoundingBox(0, 0, 1, 1),
               BoundingBox(4, 2, 5, 3), BoundingBox(6, 6, 7, 7)}

OutputFiles == {NoPath, GraphPath}

----------------------------------------------------------------------------
(* The configuration *)

\* Config::default()
DefaultConfig == [resolution |-> 10, slice_factor |-> 500]

NoProject == [exists |-> FALSE]

\* the record of a canvas or export call: arguments, whether the toolkit
\* worked, the result, and the tiles emitted, in order
CanvasCall(op, project_bb, toolkit_ok, ok, err, tiles) ==
    [op |-> op, bb |-> project_bb, toolkit_ok |-> toolkit_ok, ok |-> ok, err |-> err,
     tiles |-> tiles]

NoCanvasCall == CanvasCall("none", NoBox, TRUE, TRUE, "", <<>>)

\* the record of a layer call: the vector layer (or the overlay raster) given,
\* the step that failed if one did, the result, the canvas before the call,
\* the overlay raster that was applied, and the layer files add_layers went
\* through, in order
LayerCall(op, layer, fail, ok, err, pre, overlay, applied) ==
    [op |-> op, layer |-> layer, fail |-> fail, ok |-> ok, err |-> err, pre |-> pre,
     overlay |-> overlay, applied |-> applied]

NoLayerCall == LayerCall("none", <<>>, "none", TRUE, "", NoProject, NoProject, <<>>)

\* the temp directory holds no regional artifact
EmptyTmp ==
    [regional_geojson |-> NoBox, temp_regional_gpkg |-> NoBox, regional_gpkg |-> NoBox,
     layer_gpkg |-> NoBox]

\* the record of a build: its bounding box, the steps that failed, how it
\* ended ("ok", "error" or "panic"), the steps it ran, in order, and the box
\* of the build that wrote the regional layer it used
BuildCall(project_bb, failing, outcome, ran, regional) ==
    [bb |-> project_bb, failing |-> failing, outcome |-> outcome, ran |-> ran,
     regional |-> regional]

NoBuild == BuildCall(NoBox, {}, "none", <<>>, NoBox)

\* the commands that run create_project_com: Tauri runs an async command on
\* its runtime, so two invocations can be under way together
BuildIds == {"build1", "build2"}

\* a file of the temp directory that is not there
NoFile == "none"

\* the files of the temp directory: those prepare_layers names with the region
\* code (<code>.geojson, <code>.gpkg, <code>_region.gpkg, <code>_<file>.gpkg),
\* those it names with the layer file alone (the directory <file>/ of the
\* extracted shapefile and <file>.gpkg), and the rasters of the layer
\* functions (tmp/temp_rpg_layer.tif, tmp/output.tif)
RegionCodes == {"2A", "2B", "13"}
CodedFiles == {"geojson", "gpkg", "region.gpkg", "layer.gpkg"}
TmpPaths ==
    {<<c, f>> : c \in RegionCodes, f \in CodedFiles}
    \cup {<<"", f>> : f \in {"layer/", "layer_tmp.gpkg", "temp_rpg_layer.tif", "output.tif"}}

EmptyDir == [path \in TmpPaths |-> NoFile]

\* a build: where it is, the region codes of its box and the one being
\* prepared, the regions prepared, the files of another region or build it
\* met, the configuration values it read and the settings written meanwhile
BuildState(pc, codes, idx, prepared, met, reads, writes) ==
    [pc |-> pc, codes |-> codes, idx |-> idx, prepared |-> prepared, met |-> met,
     reads |-> reads, writes |-> writes]

IdleBuild == BuildState("idle", <<>>, 0, <<>>, {}, <<>>, 0)

NoBuilds == [b \in BuildIds |-> IdleBuild]

\* CONFIG as Config::default() builds it, and how often save_settings wrote it
DefaultSettings ==
    [cache_dir |-> "projects/cache", projects_dir |-> "projects", temp_dir |-> "tmp",
     resolution |-> 10, slice_factor |-> 500,
     output_location |-> "export", gdal_path |-> "none", saved |-> 0]

----------------------------------------------------------------------------
(* The region graph from a fresh installation: no cache artifact on disk *)

Init ==
    /\ dataset \in Datasets
    /\ files = [p \in {GraphPath} |-> AbsentFile]
    /\ last = NoCall
    /\ config = DefaultConfig
    /\ project = NoProject
    /\ lastc = NoCanvasCall
    /\ lastl = NoLayerCall
    /\ tmp = EmptyTmp
    /\ lastb = NoBuild
    /\ builds = NoBuilds
    /\ tmpdir = EmptyDir
    /\ settings = DefaultSettings

Next ==
    \/ \E output_file \in OutputFiles, write_ok \in BOOLEAN :
          build_regions_graph(output_file, write_ok)
    \/ \E region_id \in Codes : get_neighbors(region_id)
    \/ \E region_id \in Codes : get_region(region_id)
    \/ \E bounding_box \in QueryBoxes : find_intersecting_regions(bounding_box)

Spec == Init /\ [][Next]_vars

----------------------------------------------------------------------------
(* The region graph with a cache artifact that this program did not write:    *)
(* any file that parses as a region map, closed under neighbours or not, a    *)
(* file with an extent that is no WKT, or a file that is no JSON              *)

NeighborLists ==
    {<<>>} \cup {<<c>> : c \in Codes}
    \cup {cd \in Codes \X Codes : cd[1] # cd[2]}

ArtifactExtent(code) ==
    IF code = "2A" THEN geom_wkt(Polygon(0, 0, 2, 2)) ELSE geom_wkt(Polygon(2, 0, 4, 2))

ForeignArtifacts ==
    {[kind |-> "json",
      entries |-> [c \in keys |-> [code |-> c, name |-> c, extent |-> ArtifactExtent(c),
                                   neighbors |-> nb[c]]]] :
        keys \in {{"2A"}, {"2B"}}, nb \in [{"2A", "2B"} -> NeighborLists]}
    \cup
    {[kind |-> "json",
      entries |-> [c \in {"2A", "2B"} |-> [code |-> c, name |-> c, extent |-> ArtifactExtent(c),
                                           neighbors |-> nb[c]]]] :
        nb \in [{"2A", "2B"} -> NeighborLists]}
    \cup
    {[kind |-> "json",
      entries |-> [c \in {"2A"} |-> [code |-> c, name |-> c,
                                     extent |-> [text |-> "", ring |-> <<>>],
                                     neighbors |-> <<>>]]],
     CorruptFile}

InitArtifact ==
    /\ dataset = [kind |-> "FeatureCollection",
                  features |-> <<Feature("2A", Nom("2A"), GeoJsonPolygon(0, 0, 2, 2)),
                                 Feature("2B", Nom("2B"), GeoJsonPolygon(2, 0, 4, 2))>>]
    /\ files \in [{GraphPath} -> ForeignArtifacts]
    /\ last = NoCall
    /\ config = DefaultConfig
    /\ project = NoProject
    /\ lastc = NoCanvasCall
    /\ lastl = NoLayerCall
    /\ tmp = EmptyTmp
    /\ lastb = NoBuild
    /\ builds = NoBuilds
    /\ tmpdir = EmptyDir
    /\ settings = DefaultSettings

SpecArtifact == InitArtifact /\ [][Next]_vars

----------------------------------------------------------------------------
(* Properties of the region graph *)

\* the lattice points of a closed rectangle; an empty geometry has none
Points(x1, y1, x2, y2) == {<<x, y>> : x \in x1..x2, y \in y1..y2}
GeometryPoints(g) == IF g.kind = "polygon" THEN Points(g.x1, g.y1, g.x2, g.y2) ELSE {}
BoxPoints(bb) == Points(bb.xmin, bb.ymin, bb.xmax, bb.ymax)

SeqToSet(s) == {s[i] : i \in 1..Len(s)}
NoDuplicates(s) == \A i, j \in 1..Len(s) : i # j => s[i] # s[j]

IsQuery(op) == op \in {"get_neighbors", "get_region", "find_intersecting_regions"}

Symmetric(graph) ==
    \A a, b \in DOMAIN graph :
        SeqContains(graph[a].neighbors, graph[b].code)
            <=> SeqContains(graph[b].neighbors, graph[a].code)

\* C1: after build_regions_graph has built the graph, adjacency is symmetric:
\* B.code is in A.neighbors if and only if A.code is in B.neighbors
C1_AdjacencySymmetric ==
    (last.op = "build_regions_graph" /\ last.built) => Symmetric(last.graph)

C1_Witness ==
    /\ last.op = "build_regions_graph" /\ last.built
    /\ \E a, b \in DOMAIN last.graph : a # b /\ SeqContains(last.graph[a].neighbors, b)

\* the edges a graph should have: between two distinct regions whose extents
\* share a point (they intersect or touch), and nowhere else
ExpectedNeighbors(graph, a) ==
    {b \in (DOMAIN graph) \ {a} :
        GeometryPoints(graph[a].extent) \cap GeometryPoints(graph[b].extent) # {}}

\* C2: build_regions_graph adds an edge between two distinct regions exactly
\* when their geometries intersect or touch, and no other edge; get_neighbors
\* on the saved graph returns exactly the regions so related, each once
C2_EdgesExactlyIntersectOrTouch ==
    /\ (last.op = "build_regions_graph" /\ last.built) =>
          \A a \in DOMAIN last.graph :
              /\ SeqToSet(last.graph[a].neighbors) = ExpectedNeighbors(last.graph, a)
              /\ NoDuplicates(last.graph[a].neighbors)
    /\ (last.op = "get_neighbors" /\ last.ok) =>
          /\ {r.code : r \in SeqToSet(last.regions)} = ExpectedNeighbors(last.graph, last.region_id)
          /\ \A i \in 1..Len(last.regions) : last.regions[i] = last.graph[last.regions[i].code]
          /\ NoDuplicates(last.regions)

\* two regions sharing a boundary edge: the query for 2A returns exactly [2B]
C2_Witness ==
    /\ last.op = "get_neighbors" /\ last.ok /\ last.region_id = "2A"
    /\ DOMAIN last.graph = {"2A", "2B"}
    /\ Touches(last.graph["2A"].extent, last.graph["2B"].extent)
    /\ last.regions = <<last.graph["2B"]>>

Closed(graph) ==
    \A a \in DOMAIN graph : \A i \in 1..Len(graph[a].neighbors) :
        graph[a].neighbors[i] \in DOMAIN graph

C4_IntersectingRegionsExact ==
    (last.op = "find_intersecting_regions" /\ last.ok) =>
        LET hit == {c \in DOMAIN last.graph :
                      GeometryPoints(last.graph[c].extent) \cap BoxPoints(last.bb) # {}}
        IN  /\ SeqToSet(last.regions) = {last.graph[c] : c \in hit}
            /\ Len(last.regions) = Cardinality(hit)
            /\ (hit = {}) => last.regions = <<>>
            /\ Cardinality(hit) >= 2 => Len(last.regions) >= 2

C4_Witness ==
    /\ last.op = "find_intersecting_regions" /\ last.ok
    /\ last.bb = BoundingBox(1, 0, 3, 1)
    /\ {r.code : r \in SeqToSet(last.regions)} = {"2A", "2B"}
    /\ ~(BoxPoints(last.bb) \subseteq GeometryPoints(last.graph["2A"].extent))

\* the neighbour codes of a region that are no key of the graph
Dangling(graph, a) == {c \in SeqToSet(graph[a].neighbors) : c \notin DOMAIN graph}

\* C5: get_neighbors for a region whose neighbour list holds a code that is no
\* key of the graph reports an error; it never returns a list from which the
\* dangling neighbour was dropped
C5_DanglingNeighborReported ==
    (/\ last.op = "get_neighbors"
     /\ Deserialize(last.pre[GraphPath]).ok
     /\ last.region_id \in DOMAIN Deserialize(last.pre[GraphPath]).graph
     /\ Dangling(Deserialize(last.pre[GraphPath]).graph, last.region_id) # {})
    => ~last.ok

\* C6: get_neighbors and get_region with a code that is not in the graph
\* return an error; get_neighbors for a known region without neighbours
\* returns a successful empty list
C6_UnknownRegionIsError ==
    LET loaded == Deserialize(last.pre[GraphPath])
    IN  /\ (/\ last.op \in {"get_neighbors", "get_region"}
            /\ loaded.ok
            /\ last.region_id \notin DOMAIN loaded.graph)
           => (~last.ok /\ last.err = "Region code not found in the graph")
        /\ (/\ last.op = "get_neighbors"
            /\ loaded.ok
            /\ last.region_id \in DOMAIN loaded.graph
            /\ loaded.graph[last.region_id].neighbors = <<>>)
           => (last.ok /\ last.regions = <<>>)
        /\ (/\ last.op = "get_region"
            /\ loaded.ok
            /\ last.region_id \in DOMAIN loaded.graph)
           => (last.ok /\ last.regions = <<loaded.graph[last.region_id]>>)

\* an unknown code is refused on a graph that also holds a region without
\* neighbours
C6_Witness ==
    /\ last.op = "get_neighbors" /\ ~last.ok
    /\ last.err = "Region code not found in the graph"
    /\ \E c \in DOMAIN last.graph : last.graph[c].neighbors = <<>>

\* the calls that load the cache artifact, and the path they load
Loads(call) ==
    \/ IsQuery(call.op)
    \/ call.op = "build_regions_graph" /\ call.output_file # NoPath
LoadedPath(call) == IF IsQuery(call.op) THEN GraphPath ELSE call.output_file

\* a corrupt artifact is a hard failure: an error, nothing built, nothing written
CorruptIsHardFailure ==
    (/\ Loads(last)
     /\ last.pre[LoadedPath(last)].kind # "absent"
     /\ ~Deserialize(last.pre[LoadedPath(last)]).ok)
    => (~last.ok /\ ~last.built /\ files = last.pre)

\* C7 as stated: a corrupt artifact is a hard failure, and any load of an
\* absent artifact triggers a rebuild from the source dataset instead of failing
C7_AbsentLoadRebuilds ==
    /\ CorruptIsHardFailure
    /\ (/\ Loads(last)
        /\ last.pre[LoadedPath(last)].kind = "absent"
        /\ dataset.kind = "FeatureCollection")
       => last.built
    /\ last.built => last.pre[GraphPath].kind = "absent"

\* C7 as the code has it: a corrupt artifact is a hard failure; with the
\* artifact absent, build_regions_graph given its path rebuilds from the source
\* dataset, while the queries (load_regions_graph) fail with "not found" and
\* build nothing; the all-pairs build runs only in build_regions_graph and only
\* when it is given no cache path or the path is absent
C7_AbsentRebuildsOnlyInBuild ==
    /\ CorruptIsHardFailure
    /\ (/\ last.op = "build_regions_graph" /\ last.output_file # NoPath
        /\ last.pre[last.output_file].kind = "absent"
        /\ dataset.kind = "FeatureCollection")
       => last.built
    /\ (IsQuery(last.op) /\ last.pre[GraphPath].kind = "absent")
       => (~last.ok /\ last.err = "Regions graph file not found"
           /\ ~last.built /\ files = last.pre)
    /\ last.built =>
          /\ last.op = "build_regions_graph"
          /\ last.output_file = NoPath \/ last.pre[last.output_file].kind = "absent"

\* build_regions_graph met a corrupt artifact and left it as it was
C7_Witness ==
    /\ last.op = "build_regions_graph" /\ last.output_file = GraphPath
    /\ last.pre[GraphPath] = CorruptFile
    /\ ~last.ok /\ files[GraphPath] = CorruptFile

----------------------------------------------------------------------------
(* The project canvas (gis_operation/mod.rs) *)

\* let resolution = 10.0;
CanvasResolution == 10
\* width % 500 == 0 && height % 500 == 0
CanvasSliceMultiple == 500
\* driver.create(project_file_path, width, height, 4)
CanvasBands == 4
\* SpatialRef::from_epsg(2154)
CanvasEpsg == 2154
\* band.fill(255.0, None) on band 4
Opaque == 255

\* a slip: the pixel count rounded down
FloorPixels(extent, resolution) ==
    IF extent < 0 THEN 0 ELSE extent \div resolution

\* (extent / resolution).ceil() as usize; the cast takes a negative value to 0
CeilPixels(extent, resolution) ==
    IF extent < 0 THEN 0 ELSE (extent + resolution - 1) \div resolution

\* a raster band: the value it was filled with, and the pixels written since
Band(value) == [background |-> value, painted |-> EmptyMap]
PixelAt(canvas, band_idx, x, y) ==
    LET band == canvas.bands[band_idx]
    IN  IF <<x, y>> \in DOMAIN band.painted THEN band.painted[<<x, y>>] ELSE band.background

\* GDALCreate refuses a raster with a side of no pixel
DriverCreates(width, height) == width >= 1 /\ height >= 1

\* a slip: every band filled with 0
FillBandsAllZero(bands) == [band_idx \in DOMAIN bands |-> Band(0)]

\* for band_idx in 1..=3 { band.fill(0.0) }; rasterband(4).fill(255.0)
FillBands(bands) ==
    [band_idx \in DOMAIN bands |->
        IF band_idx \in 1..3 THEN Band(0)
        ELSE IF band_idx = 4 THEN Band(Opaque)
        ELSE bands[band_idx]]

\* the dataset create_project leaves on disk
NewCanvas(project_bb, width, height) ==
    [exists |-> TRUE, width |-> width, height |-> height,
     geotransform |-> <<project_bb.xmin, CanvasResolution, 0,
                        project_bb.ymax, 0, -CanvasResolution>>,
     epsg |-> CanvasEpsg,
     bands |-> FillBands([band_idx \in 1..CanvasBands |-> Band(0)])]

create_project(project_bb, toolkit_ok) ==
    /\ LET width == CeilPixels(bb_width(project_bb), CanvasResolution)
           height == CeilPixels(bb_height(project_bb), CanvasResolution)
       IN  IF ~(width % CanvasSliceMultiple = 0 /\ height % CanvasSliceMultiple = 0)
           THEN /\ lastc' = CanvasCall("create_project", project_bb, toolkit_ok, FALSE,
                                       "Width and height must be multiples of 500", <<>>)
                /\ UNCHANGED project
           ELSE IF ~(toolkit_ok /\ DriverCreates(width, height))
           THEN /\ lastc' = CanvasCall("create_project", project_bb, toolkit_ok, FALSE,
                                       "gdal", <<>>)
                /\ UNCHANGED project
           ELSE /\ project' = NewCanvas(project_bb, width, height)
                /\ lastc' = CanvasCall("create_project", project_bb, toolkit_ok, TRUE, "", <<>>)
    /\ UNCHANGED <<dataset, files, last, config, lastl, tmp, lastb, builds, tmpdir, settings>>

----------------------------------------------------------------------------
(* The tile slicer (gis_operation/slicing.rs) and export_project (utils.rs) *)

\* (xmin / 1000.0) as u32
KmCoordinate(coord) == IF coord < 0 THEN 0 ELSE coord \div 1000

calculate_base_coordinates(xmin, ymin) == <<KmCoordinate(xmin), KmCoordinate(ymin)>>

\* get_project_bounding_box: the corner coordinates gdalinfo derives from the
\* geotransform and the raster size
get_project_bounding_box(canvas) ==
    LET gt == canvas.geotransform
    IN  BoundingBox(gt[1], gt[4] + canvas.height * gt[6],
                    gt[1] + canvas.width * gt[2], gt[4])

\* (0..n).step_by(step)
StepBy(n, step) == {i \in 0..(n - 1) : i % step = 0}

\* the offsets of step_by, highest first: (0..height).step_by(..).rev()
RECURSIVE Descending(_)
Descending(S) ==
    IF S = {} THEN <<>> ELSE <<SetMax(S)>> \o Descending(S \ {SetMax(S)})
RECURSIVE Ascending(_)
Ascending(S) ==
    IF S = {} THEN <<>> ELSE <<SetMin(S)>> \o Ascending(S \ {SetMin(S)})

\* a slip: a position at the image's edge is cropped and emitted too
RECURSIVE SliceRowKeepsEdge(_, _, _, _, _, _)
SliceRowKeepsEdge(xs, img_y, width, height, slice_factor, base) ==
    IF xs = <<>> THEN <<>>
    ELSE << [img_x |-> Head(xs), img_y |-> img_y, size |-> slice_factor,
             coord_x |-> base[1] + Head(xs) \div 100,
             coord_y |-> base[2] + (height - img_y - slice_factor) \div 100] >>
         \o SliceRowKeepsEdge(Tail(xs), img_y, width, height, slice_factor, base)

\* one row of slice_and_process_images: a position whose tile would pass the
\* image's edge is skipped
RECURSIVE SliceRow(_, _, _, _, _, _)
SliceRow(xs, img_y, width, height, slice_factor, base) ==
    IF xs = <<>> THEN <<>>
    ELSE LET img_x == Head(xs)
             rest == SliceRow(Tail(xs), img_y, width, height, slice_factor, base)
         IN  IF img_x + slice_factor > width \/ img_y + slice_factor > height THEN rest
             ELSE << [img_x |-> img_x, img_y |-> img_y, size |-> slice_factor,
                      coord_x |-> base[1] + img_x \div 100,
                      coord_y |-> base[2] + (height - img_y - slice_factor) \div 100] >>
                  \o rest

RECURSIVE SliceRows(_, _, _, _, _, _)
SliceRows(ys, xs, width, height, slice_factor, base) ==
    IF ys = <<>> THEN <<>>
    ELSE SliceRow(xs, Head(ys), width, height, slice_factor, base)
         \o SliceRows(Tail(ys), xs, width, height, slice_factor, base)

\* the tiles slice_and_process_images emits, in order
slice_and_process_images(width, height, slice_factor, base) ==
    SliceRows(Descending(StepBy(height, slice_factor)), Ascending(StepBy(width, slice_factor)),
              width, height, slice_factor, base)

\* the image files of a tile, in the order save_and_process_slice saves them
SliceKinds == <<"veget", "ortho">>

\* no save fails
NoWriteFailure == <<0, "none">>

\* the saves of the first n tiles, in order: <<tile, kind>>
Saves(n) == [j \in 1..(2 * n) |-> <<(j + 1) \div 2, SliceKinds[2 - (j % 2)]>>]

\* the loop of slice_and_process_images over save_and_process_slice, the save
\* of image failing[2] of tile failing[1] failing: the ? on each save and on
\* each call returns the error at once
SaveSlices(tiles, failing) ==
    IF failing = NoWriteFailure \/ failing[1] > Len(tiles)
    THEN [ok |-> TRUE, err |-> "", saved |-> tiles, written |-> Saves(Len(tiles))]
    ELSE [ok |-> FALSE,
          err |-> IF failing[2] = "veget" THEN "Failed to save VEGET slice"
                  ELSE "Failed to save ORTHO slice",
          saved |-> SubSeq(tiles, 1, failing[1] - 1),
          written |-> IF failing[2] = "veget" THEN Saves(failing[1] - 1)
                      ELSE Saves(failing[1] - 1) \o << <<failing[1], "veget">> >>]

\* the record of an export: the call's record, the save that was made to fail
\* and the saves done, in order
ExportCall(project_bb, ok, err, tiles, failing, written) ==
    [op |-> "export_project", bb |-> project_bb, toolkit_ok |-> TRUE, ok |-> ok,
     err |-> err, tiles |-> tiles, failing |-> failing, written |-> written]

\* export_project: slice_images(project_name, slice_factor()) on the rendered
\* images, which have the canvas's size
export_project(failing) ==
    /\ IF ~project.exists
       THEN lastc' = ExportCall(NoBox, FALSE, "Failed to open VEGET image", <<>>,
                                failing, <<>>)
       ELSE LET project_coordinates == get_project_bounding_box(project)
                base == calculate_base_coordinates(project_coordinates.xmin,
                                                   project_coordinates.ymin)
            IN  \E tiles \in {slice_and_process_images(project.width, project.height,
                                                       config.slice_factor, base)} :
                \E r \in {SaveSlices(tiles, failing)} :
                    lastc' = ExportCall(project_coordinates, r.ok, r.err, r.saved,
                                        failing, r.written)
    /\ UNCHANGED <<dataset, files, last, config, project, lastl, tmp, lastb, builds, tmpdir, settings>>

----------------------------------------------------------------------------
(* Inputs of the canvas *)

\* config.json: Config::load takes resolution and slice_factor as the file has them
Configs == {[resolution |-> r, slice_factor |-> f] : r \in {10, 20}, f \in {200, 250, 500, 1000}}

\* widths and heights in metres: none, five metres short of a tile, a tile,
\* five metres more, a tile and a half, two tiles
CanvasExtents == {0, 4995, 5000, 5005, 7500, 10000}

\* boxes at the origin, and the box of create_project's own example
ProjectBoxes ==
    {BoundingBox(0, 0, w, h) : w \in CanvasExtents, h \in CanvasExtents}
    \cup {BoundingBox(1210000, 6070000, 1235000, 6095000)}

\* the save that fails: none, or one image of one of the first tiles
MaxFailingTile == 2
WriteFailures ==
    {NoWriteFailure}
    \cup {<<k, SliceKinds[i]>> : k \in 1..MaxFailingTile, i \in 1..Len(SliceKinds)}

InitCanvas ==
    /\ dataset = [kind |-> "absent", features |-> <<>>]
    /\ files = [p \in {GraphPath} |-> AbsentFile]
    /\ last = NoCall
    /\ config \in Configs
    /\ project = NoProject
    /\ lastc = NoCanvasCall
    /\ lastl = NoLayerCall
    /\ tmp = EmptyTmp
    /\ lastb = NoBuild
    /\ builds = NoBuilds
    /\ tmpdir = EmptyDir
    /\ settings = DefaultSettings

NextCanvas ==
    \/ \E project_bb \in ProjectBoxes, toolkit_ok \in BOOLEAN :
          create_project(project_bb, toolkit_ok)
    \/ \E failing \in WriteFailures : export_project(failing)

SpecCanvas == InitCanvas /\ [][NextCanvas]_vars

----------------------------------------------------------------------------
(* Properties of the canvas *)

\* the extents from which the count of pixels, rounded up, is a positive
\* multiple of per_tile: those in the last pixel up to k whole tiles
RoundsToWholeTiles(extent, resolution, per_tile) ==
    \E k \in 1..(extent \div (resolution * per_tile) + 1) :
        /\ extent <= k * per_tile * resolution
        /\ extent > k * per_tile * resolution - resolution

\* the extents that are k whole tiles, k >= 1
IsWholeTiles(extent, resolution, per_tile) ==
    extent > 0 /\ extent % (resolution * per_tile) = 0

\* C8 as stated: create_project succeeds, with a canvas of whole tiles, for
\* every box whose width and height are exact multiples of resolution x
\* sliceFactor, and fails for every other box
C8_ExactMultiplesOnly ==
    lastc.op = "create_project" =>
        LET w_ok == IsWholeTiles(bb_width(lastc.bb), CanvasResolution, CanvasSliceMultiple)
            h_ok == IsWholeTiles(bb_height(lastc.bb), CanvasResolution, CanvasSliceMultiple)
        IN  /\ (w_ok /\ h_ok /\ lastc.toolkit_ok) =>
                  /\ lastc.ok
                  /\ project.width % CanvasSliceMultiple = 0
                  /\ project.height % CanvasSliceMultiple = 0
            /\ ~(w_ok /\ h_ok) => ~lastc.ok

\* C8 as the code has it: create_project succeeds exactly for the boxes whose
\* width and height in pixels, rounded up (an extent up to 10 m short of whole
\* tiles included), are positive multiples of 500, the toolkit working; the
\* canvas then has width % 500 = 0 and height % 500 = 0; every other box fails
C8_RoundedUpMultiples ==
    lastc.op = "create_project" =>
        LET w_ok == RoundsToWholeTiles(bb_width(lastc.bb), 10, 500)
            h_ok == RoundsToWholeTiles(bb_height(lastc.bb), 10, 500)
        IN  /\ lastc.ok <=> (w_ok /\ h_ok /\ lastc.toolkit_ok)
            /\ lastc.ok =>
                  /\ project.exists
                  /\ project.width > 0 /\ project.width % 500 = 0
                  /\ project.height > 0 /\ project.height % 500 = 0

\* a box 4995 m wide is accepted, as a canvas of 500 pixels
C8_Witness ==
    /\ lastc.op = "create_project" /\ lastc.ok
    /\ bb_width(lastc.bb) = 4995
    /\ project.width = 500

\* the tiles of the last export cover every pixel column and row of the image,
\* and every crossing of a covered column and row has its tile
CoversEveryPixel(tiles, width, height, size) ==
    LET xs == {tiles[i].img_x : i \in 1..Len(tiles)}
        ys == {tiles[i].img_y : i \in 1..Len(tiles)}
    IN  /\ \A px \in 0..(width - 1) : \E x \in xs : x <= px /\ px < x + size
        /\ \A py \in 0..(height - 1) : \E y \in ys : y <= py /\ py < y + size
        /\ \A x \in xs : \A y \in ys :
              \E i \in 1..Len(tiles) : tiles[i].img_x = x /\ tiles[i].img_y = y

\* C9: for every configured slice factor, every canvas create_project accepts
\* has a width and height that are multiples of the configured slice factor,
\* and slice_images with slice_factor() covers every pixel with a tile
C9_CanvasFitsConfiguredSliceFactor ==
    /\ project.exists =>
          /\ project.width % config.slice_factor = 0
          /\ project.height % config.slice_factor = 0
    /\ (lastc.op = "export_project" /\ lastc.ok) =>
          CoversEveryPixel(lastc.tiles, project.width, project.height, config.slice_factor)

\* C10: the canvas create_project creates has 4 bands, ceil(width / 10) by
\* ceil(height / 10) pixels, bands 1-3 all 0 and band 4 all 255, and the
\* geotransform (xmin, 10, 0, ymax, 0, -10); the box (0,0,5000,5000) gives
\* 500 x 500 pixels
C10_CanvasAsCreated ==
    (lastc.op = "create_project" /\ lastc.ok) =>
        /\ project.exists
        /\ DOMAIN project.bands = 1..4
        /\ project.width * 10 >= bb_width(lastc.bb)
        /\ (project.width - 1) * 10 < bb_width(lastc.bb)
        /\ project.height * 10 >= bb_height(lastc.bb)
        /\ (project.height - 1) * 10 < bb_height(lastc.bb)
        /\ \A band_idx \in 1..3 :
              /\ project.bands[band_idx] = [background |-> 0, painted |-> <<>>]
              /\ PixelAt(project, band_idx, 0, 0) = 0
              /\ PixelAt(project, band_idx, project.width - 1, project.height - 1) = 0
        /\ project.bands[4] = [background |-> 255, painted |-> <<>>]
        /\ PixelAt(project, 4, 0, 0) = 255
        /\ PixelAt(project, 4, project.width - 1, project.height - 1) = 255
        /\ project.geotransform = <<lastc.bb.xmin, 10, 0, lastc.bb.ymax, 0, -10>>
        /\ lastc.bb = BoundingBox(0, 0, 5000, 5000) =>
              (project.width = 500 /\ project.height = 500)

C10_Witness ==
    /\ lastc.op = "create_project" /\ lastc.ok
    /\ lastc.bb = BoundingBox(0, 0, 5000, 5000)
    /\ project.width = 500 /\ project.height = 500
    /\ project.bands[4].background = 255

----------------------------------------------------------------------------
(* Layer rasters and apply_overlay (gis_operation/processing.rs) *)

\* the pixels a vector feature of the inputs can cover
FeaturePixels == {<<0, 0>>, <<1, 0>>}
\* a pixel no feature of the inputs covers; all such pixels hold the same value
FarPixel == <<499, 499>>
SamplePixels == FeaturePixels \cup {FarPixel}

BandAt(band, p) ==
    IF p \in DOMAIN band.painted THEN band.painted[p] ELSE band.background

\* band.read_as::<u8>((0, 0), (width, height), ..): the buffer of a whole band
ReadBand(band) == [p \in SamplePixels |-> BandAt(band, p)]

\* out_band.write((0, 0), (width, height), buffer): the band holds the buffer,
\* the pixels that differ from the rest put into the map of painted pixels
WriteBand(data) ==
    [background |-> data[FarPixel],
     painted |-> [p \in {q \in FeaturePixels : data[q] # data[FarPixel]} |-> data[p]]
                 @@ EmptyMap]

\* a three-band raster of the project's size
Raster(width, height, data) ==
    [exists |-> TRUE, width |-> width, height |-> height,
     bands |-> <<WriteBand(data[1]), WriteBand(data[2]), WriteBand(data[3])>>]

NoRaster == [exists |-> FALSE]

\* the pixels the features of a layer cover
Covered(features) == UNION {features[k].pixels : k \in 1..Len(features)}

\* filtering a layer with -where
RECURSIVE SelectWhere(_, _)
SelectWhere(features, essences) ==
    IF features = <<>> THEN <<>>
    ELSE IF Head(features).essence \in essences
         THEN <<Head(features)>> \o SelectWhere(Tail(features), essences)
         ELSE SelectWhere(Tail(features), essences)

\* gdal_rasterize -burn b1 -burn b2 -burn b3 -ts width height -te .. into a new
\* raster: the burn value where a feature lies, 0 elsewhere
rasterize_layer(project_ds, features, burn_values) ==
    Raster(project_ds.width, project_ds.height,
           [b \in 1..3 |->
               [p \in SamplePixels |-> IF p \in Covered(features) THEN burn_values[b] ELSE 0]])

\* a slip: value > 0 for the topographic layers too
MaskConditionPositive(predicate, value) == value > 0

\* the closures given to apply_overlay: |&value| value > 0; add_topo_layer
\* tests value != 255 in its own loop
MaskCondition(predicate, value) ==
    IF predicate = "positive" THEN value > 0 ELSE value # 255

\* a slip: the mask taken from the overlay's first band alone
OverlayMaskFirstBand(overlay_raster, predicate) ==
    [p \in SamplePixels |-> MaskCondition(predicate, ReadBand(overlay_raster.bands[1])[p])]

\* for band in &overlay_bands { .. if mask_condition(value) { mask[i] = true } }
OverlayMask(overlay_raster, predicate) ==
    [p \in SamplePixels |->
        \E b \in 1..3 : MaskCondition(predicate, ReadBand(overlay_raster.bands[b])[p])]

\* a slip: the overlay added to the canvas value
OverlayDataAdded(project_ds, overlay_raster, mask, i) ==
    LET base_band_data == ReadBand(project_ds.bands[i])
    IN  IF i <= 3
        THEN [p \in SamplePixels |->
                 IF mask[p] THEN (base_band_data[p] + ReadBand(overlay_raster.bands[i])[p]) % 256
                 ELSE base_band_data[p]]
        ELSE base_band_data

\* a slip: band 4 cleared where the mask is true
OverlayDataClearsAlpha(project_ds, overlay_raster, mask, i) ==
    LET base_band_data == ReadBand(project_ds.bands[i])
    IN  IF i <= 3
        THEN [p \in SamplePixels |->
                 IF mask[p] THEN ReadBand(overlay_raster.bands[i])[p] ELSE base_band_data[p]]
        ELSE [p \in SamplePixels |-> IF mask[p] THEN 0 ELSE base_band_data[p]]

\* the data written to band i + 1 of the output: the overlay value where the
\* mask is true, the base value elsewhere; band 4 is the base band
OverlayData(project_ds, overlay_raster, mask, i) ==
    LET base_band_data == ReadBand(project_ds.bands[i])
    IN  IF i <= 3
        THEN [p \in SamplePixels |->
                 IF mask[p] THEN ReadBand(overlay_raster.bands[i])[p] ELSE base_band_data[p]]
        ELSE base_band_data

\* a slip: the output created with three bands
OutputDatasetThreeBands(project_ds, data) ==
    [exists |-> TRUE, width |-> project_ds.width, height |-> project_ds.height,
     geotransform |-> project_ds.geotransform, epsg |-> project_ds.epsg,
     bands |-> <<WriteBand(data[1]), WriteBand(data[2]), WriteBand(data[3])>>]

\* driver.create(output_file, raster_size.0, raster_size.1, 4), set_geo_transform
\* and set_projection from the project, the four bands written
OutputDataset(project_ds, data) ==
    [exists |-> TRUE, width |-> project_ds.width, height |-> project_ds.height,
     geotransform |-> project_ds.geotransform, epsg |-> project_ds.epsg,
     bands |-> <<WriteBand(data[1]), WriteBand(data[2]), WriteBand(data[3]),
                 WriteBand(data[4])>>]

\* apply_overlay: the dataset that replaces the project file
OverlayCanvas(project_ds, overlay_raster, predicate) ==
    LET mask == OverlayMask(overlay_raster, predicate)
    IN  OutputDataset(project_ds,
                      [i \in 1..4 |-> OverlayData(project_ds, overlay_raster, mask, i)])

\* the result of a layer function: Ok or Err, the project file after it, and
\* the overlay raster it applied
LayerResult(ok, err, canvas, overlay) ==
    [ok |-> ok, err |-> err, canvas |-> canvas, overlay |-> overlay]

\* the steps of a layer function that can fail
LayerFailures == {"none", "rasterize", "apply_overlay", "remove_file"}

\* a slip: the project file replaced before the output is complete, so that a
\* failure of apply_overlay leaves the new canvas behind
OverlayLayerReplacesFirst(project_ds, overlay_raster, fail) ==
    IF ~project_ds.exists THEN LayerResult(FALSE, "open", project_ds, NoRaster)
    ELSE IF fail = "rasterize"
    THEN LayerResult(FALSE, "gdal_rasterize failed", project_ds, NoRaster)
    ELSE LET canvas == OverlayCanvas(project_ds, overlay_raster, "positive")
         IN  IF fail \in {"apply_overlay", "remove_file"}
             THEN LayerResult(FALSE, fail, canvas, overlay_raster)
             ELSE LayerResult(TRUE, "", canvas, overlay_raster)

\* rasterize, apply_overlay(.., |&value| value > 0), remove the temp rasters:
\* the body add_regional_layer, add_rpg_layer and add_vegetation_layer share
\* once their overlay raster is made
OverlayLayer(project_ds, overlay_raster, fail) ==
    IF ~project_ds.exists THEN LayerResult(FALSE, "open", project_ds, NoRaster)
    ELSE IF fail = "rasterize"
    THEN LayerResult(FALSE, "gdal_rasterize failed", project_ds, NoRaster)
    ELSE IF fail = "apply_overlay"
    THEN LayerResult(FALSE, "apply_overlay", project_ds, overlay_raster)
    ELSE LET canvas == OverlayCanvas(project_ds, overlay_raster, "positive")
         IN  IF fail = "remove_file"
             THEN LayerResult(FALSE, "remove_file", canvas, overlay_raster)
             ELSE LayerResult(TRUE, "", canvas, overlay_raster)

----------------------------------------------------------------------------
(* The layer functions (gis_operation/layers.rs) *)

\* a slip: the regional layer burnt white
RegionalBurnWhite == <<255, 255, 255>>

\* burn values of the layers
RegionalBurn == <<0, 0, 0>>
RpgBurn == <<25, 50, 60>>
FeuillusBurn == <<80, 200, 120>>
UndefinedBurn == <<25, 50, 60>>
OtherBurn == <<50, 200, 80>>

feuillus_types ==
    {"Feuillus", "Chataignier", "Chenes sempervirents", "Chenes decidus", "Hetre"}
undefined_types == {"NC", "NR"}

\* the values of ESSENCE in the inputs
Essences == {"Feuillus", "NC", "Pin maritime"}

\* a feature whose ESSENCE is NULL: ESSENCE IN (..) and ESSENCE NOT IN (..) are
\* both unknown for it, and a filter selects the features it is true for
NullEssence == "<null>"

\* ESSENCE NOT IN (all_types)
OtherEssences == Essences \ (feuillus_types \cup undefined_types)

add_regional_layer(project_ds, regional_layer, fail) ==
    IF ~project_ds.exists THEN LayerResult(FALSE, "open", project_ds, NoRaster)
    ELSE OverlayLayer(project_ds, rasterize_layer(project_ds, regional_layer, RegionalBurn),
                      fail)

add_rpg_layer(project_ds, rpg_layer, fail) ==
    IF ~project_ds.exists THEN LayerResult(FALSE, "open", project_ds, NoRaster)
    ELSE OverlayLayer(project_ds, rasterize_layer(project_ds, rpg_layer, RpgBurn), fail)

\* a slip: the classes merged lowest first
CombinedDataOtherFirst(feuillus_data, undefined_data, other_data) ==
    [p \in SamplePixels |->
        IF other_data[p] > 0 THEN other_data[p]
        ELSE IF undefined_data[p] > 0 THEN undefined_data[p]
        ELSE IF feuillus_data[p] > 0 THEN feuillus_data[p]
        ELSE 0]

\* combined_data: if f > 0 { f } else if u > 0 { u } else if o > 0 { o } else { 0 }
CombinedData(feuillus_data, undefined_data, other_data) ==
    [p \in SamplePixels |->
        IF feuillus_data[p] > 0 THEN feuillus_data[p]
        ELSE IF undefined_data[p] > 0 THEN undefined_data[p]
        ELSE IF other_data[p] > 0 THEN other_data[p]
        ELSE 0]

\* the three rasters of the classes merged into temp_vegetation.tif
VegetationRaster(project_ds, vegetation_layer) ==
    LET feuillus == rasterize_layer(project_ds, SelectWhere(vegetation_layer, feuillus_types),
                                    FeuillusBurn)
        undefined == rasterize_layer(project_ds, SelectWhere(vegetation_layer, undefined_types),
                                     UndefinedBurn)
        other == rasterize_layer(project_ds, SelectWhere(vegetation_layer, OtherEssences),
                                 OtherBurn)
    IN  Raster(project_ds.width, project_ds.height,
               [b \in 1..3 |-> CombinedData(ReadBand(feuillus.bands[b]),
                                            ReadBand(undefined.bands[b]),
                                            ReadBand(other.bands[b]))])

add_vegetation_layer(project_ds, vegetation_layer, fail) ==
    IF ~project_ds.exists THEN LayerResult(FALSE, "open", project_ds, NoRaster)
    ELSE OverlayLayer(project_ds, VegetationRaster(project_ds, vegetation_layer), fail)

\* the dummy raster filled with 255, the features burnt into it with 0
TopoRaster(project_ds, topo_layer) ==
    Raster(project_ds.width, project_ds.height,
           [b \in 1..3 |->
               [p \in SamplePixels |-> IF p \in Covered(topo_layer) THEN 0 ELSE 255]])

\* if mask_value { 0 } else { base_value } on bands 1-3, band 4 as it is
TopoData(project_ds, mask, i) ==
    LET base_band_data == ReadBand(project_ds.bands[i])
    IN  IF i <= 3
        THEN [p \in SamplePixels |-> IF mask[p] THEN 0 ELSE base_band_data[p]]
        ELSE base_band_data

\* the blanking of add_topo_layer once the layer is known to have features
TopoBlanking(project_ds, topo_layer, fail) ==
    IF Head(topo_layer).geom = "none"
    THEN LayerResult(FALSE, "Feature has no geometry", project_ds, NoRaster)
    ELSE IF fail = "rasterize"
    THEN LayerResult(FALSE, "gdal_rasterize failed", project_ds, NoRaster)
    ELSE LET topo_raster == TopoRaster(project_ds, topo_layer)
             mask == OverlayMask(topo_raster, "not_white")
             canvas == OutputDataset(project_ds,
                                     [i \in 1..4 |-> TopoData(project_ds, mask, i)])
         IN  IF fail = "apply_overlay"
             THEN LayerResult(FALSE, "output", project_ds, topo_raster)
             ELSE IF fail = "remove_file"
             THEN LayerResult(FALSE, "remove_file", canvas, topo_raster)
             ELSE LayerResult(TRUE, "", canvas, topo_raster)

\* a slip: the early return left out, so that a layer without features runs
\* into ok_or("No features in layer")
add_topo_layer_requires_features(project_ds, topo_layer, fail) ==
    IF ~project_ds.exists THEN LayerResult(FALSE, "open", project_ds, NoRaster)
    ELSE IF topo_layer = <<>>
    THEN LayerResult(FALSE, "No features in layer", project_ds, NoRaster)
    ELSE TopoBlanking(project_ds, topo_layer, fail)

add_topo_layer(project_ds, topo_layer, fail) ==
    IF ~project_ds.exists THEN LayerResult(FALSE, "open", project_ds, NoRaster)
    ELSE IF topo_layer = <<>> THEN LayerResult(TRUE, "", project_ds, NoRaster)
    ELSE TopoBlanking(project_ds, topo_layer, fail)

\* resources/<project_name>.gpkg, the regional layer of the project
ProjectLayer == "<project_name>"

\* the layer files of add_layers, in the order it goes through them
TopoFiles ==
    <<"AERODROME", "CONSTRUCTION_SURFACIQUE", "EQUIPEMENT_DE_TRANSPORT", "RESERVOIR",
      "TERRAIN_DE_SPORT", "TRONCON_DE_VOIE_FERREE", "ZONE_D_ESTRAN", "BATIMENT",
      "COURS_D_EAU", "PLAN_D_EAU", "SURFACE_HYDROGRAPHIQUE", "TRONCON_DE_ROUTE",
      "VOIE_NOMMEE">>

\* a slip: the topographic layers applied before the vegetation and the parcels
LayerFilesTopoFirst ==
    <<ProjectLayer>> \o TopoFiles \o <<"FORMATION_VEGETALE", "PARCELLES_GRAPHIQUES">>

\* a slip: the parcels applied before the vegetation
LayerFilesParcelsFirst ==
    <<ProjectLayer, "PARCELLES_GRAPHIQUES", "FORMATION_VEGETALE">> \o TopoFiles

LayerFiles == <<ProjectLayer, "FORMATION_VEGETALE", "PARCELLES_GRAPHIQUES">> \o TopoFiles

\* match key { 1 => add_vegetation_layer, 2 => add_rpg_layer, 3 => add_topo_layer }
AddLayerFile(project_ds, file, layer, fail) ==
    IF file = ProjectLayer THEN add_regional_layer(project_ds, layer, fail)
    ELSE IF file = "FORMATION_VEGETALE" THEN add_vegetation_layer(project_ds, layer, fail)
    ELSE IF file = "PARCELLES_GRAPHIQUES" THEN add_rpg_layer(project_ds, layer, fail)
    ELSE add_topo_layer(project_ds, layer, fail)

NoFailure == [file |-> "none", fail |-> "none"]

\* the layer files gone through one after the other: the first error ends the
\* run and is returned
RECURSIVE AddLayersFrom(_, _, _, _, _)
AddLayersFrom(project_ds, layer_files, layers, failing, applied) ==
    IF layer_files = <<>>
    THEN [ok |-> TRUE, err |-> "", canvas |-> project_ds, applied |-> applied]
    ELSE LET file == Head(layer_files)
         IN  CHOOSE result \in
                 {IF ~r.ok
                  THEN [ok |-> FALSE, err |-> r.err, canvas |-> r.canvas,
                        applied |-> Append(applied, file)]
                  ELSE AddLayersFrom(r.canvas, Tail(layer_files), layers, failing,
                                     Append(applied, file)) :
                     r \in {AddLayerFile(project_ds, file, layers[file],
                                         IF failing.file = file THEN failing.fail
                                         ELSE "none")}} : TRUE

add_layers(project_ds, layers, failing) ==
    AddLayersFrom(project_ds, LayerFiles, layers, failing, <<>>)

\* the actions: a layer function called on the project file
LayerAction(op, layer, fail, result) ==
    /\ \E r \in {result} :
          /\ project' = r.canvas
          /\ lastl' = LayerCall(op, layer, fail, r.ok, r.err, project, r.overlay, <<>>)
    /\ UNCHANGED <<dataset, files, last, config, lastc, tmp, lastb, builds, tmpdir, settings>>

AddRegionalLayer(layer, fail) ==
    LayerAction("add_regional_layer", layer, fail, add_regional_layer(project, layer, fail))

AddVegetationLayer(layer, fail) ==
    LayerAction("add_vegetation_layer", layer, fail,
                add_vegetation_layer(project, layer, fail))

AddRpgLayer(layer, fail) ==
    LayerAction("add_rpg_layer", layer, fail, add_rpg_layer(project, layer, fail))

AddTopoLayer(layer, fail) ==
    LayerAction("add_topo_layer", layer, fail, add_topo_layer(project, layer, fail))

\* apply_overlay called with an overlay raster and a mask predicate
ApplyOverlay(overlay_raster, predicate, fail) ==
    /\ IF ~project.exists \/ fail # "none"
       THEN /\ lastl' = LayerCall("apply_overlay", predicate, fail, FALSE, "gdal", project,
                                  overlay_raster, <<>>)
            /\ UNCHANGED project
       ELSE /\ project' = OverlayCanvas(project, overlay_raster, predicate)
            /\ lastl' = LayerCall("apply_overlay", predicate, fail, TRUE, "", project,
                                  overlay_raster, <<>>)
    /\ UNCHANGED <<dataset, files, last, config, lastc, tmp, lastb, builds, tmpdir, settings>>

AddLayers(layers, failing) ==
    /\ \E r \in {add_layers(project, layers, failing)} :
           /\ project' = r.canvas
           /\ lastl' = LayerCall("add_layers", layers, failing, r.ok, r.err, project,
                                 NoRaster, r.applied)
    /\ UNCHANGED <<dataset, files, last, config, lastc, tmp, lastb, builds, tmpdir, settings>>

----------------------------------------------------------------------------
(* Inputs of the layers *)

VectorFeature(pixels, essence, geom) == [pixels |-> pixels, essence |-> essence, geom |-> geom]

\* a layer function is called with every layer and no failure, and with one
\* layer and every failure
Calls(layers, failed_layer) ==
    {<<layer, "none">> : layer \in layers}
    \cup {<<failed_layer, fail>> : fail \in LayerFailures}

RegionalFeature == VectorFeature(FeaturePixels, "", "polygon")

RegionalLayers == {<<>>, <<RegionalFeature>>}

\* no feature, one feature of a class, two features of two classes that
\* overlap at the first pixel, or a feature of a class and one without ESSENCE
VegetationLayers ==
    {<<>>,
     <<VectorFeature(FeaturePixels, "Feuillus", "polygon")>>,
     <<VectorFeature({<<0, 0>>}, "NC", "polygon")>>,
     <<VectorFeature({<<0, 0>>}, "Pin maritime", "polygon")>>,
     <<VectorFeature({<<0, 0>>}, "Pin maritime", "polygon"),
       VectorFeature(FeaturePixels, "NC", "polygon")>>,
     <<VectorFeature({<<0, 0>>}, "NC", "polygon"),
       VectorFeature(FeaturePixels, "Feuillus", "polygon")>>,
     <<VectorFeature({<<0, 0>>}, "Pin maritime", "polygon"),
       VectorFeature({<<1, 0>>}, NullEssence, "polygon")>>}

RpgLayers ==
    {<<>>} \cup {<<VectorFeature(px, "", "polygon")>> : px \in {{<<0, 0>>}, {<<1, 0>>}}}

\* no feature, a surface, a line, a feature without geometry
TopoLayers ==
    {<<>>,
     <<VectorFeature({<<0, 0>>}, "", "polygon")>>,
     <<VectorFeature({<<1, 0>>}, "", "line")>>,
     <<VectorFeature({}, "", "none")>>}

\* overlay rasters given to apply_overlay: a pixel with a value in one band
\* only, a pixel with a value in every band, and a raster of 255 but for a pixel
OverlayRaster(first, second, far) ==
    Raster(500, 500,
           [b \in 1..3 |-> [p \in SamplePixels |->
               IF p = <<0, 0>> THEN first[b] ELSE IF p = <<1, 0>> THEN second[b] ELSE far]])

OverlayCalls ==
    {<<OverlayRaster(<<0, 7, 0>>, <<3, 4, 5>>, 0), "positive", "none">>,
     <<OverlayRaster(<<0, 7, 0>>, <<3, 4, 5>>, 0), "positive", "apply_overlay">>,
     <<OverlayRaster(<<255, 255, 255>>, <<255, 8, 255>>, 255), "not_white", "none">>}

\* the layer files of a project: each of the vegetation, the parcels and two
\* topographic layers with a feature or without; the other topographic
\* layers have no feature
ProjectLayersOf(reg, veg, rpg, bat, route) ==
    [file \in SeqToSet(LayerFiles) |->
        IF file = ProjectLayer THEN reg
        ELSE IF file = "FORMATION_VEGETALE" THEN veg
        ELSE IF file = "PARCELLES_GRAPHIQUES" THEN rpg
        ELSE IF file = "BATIMENT" THEN bat
        ELSE IF file = "TRONCON_DE_ROUTE" THEN route
        ELSE <<>>]

ProjectLayers ==
    {ProjectLayersOf(<<RegionalFeature>>, veg, rpg, bat, route) :
        veg \in {<<>>, <<VectorFeature(FeaturePixels, "Feuillus", "polygon")>>},
        rpg \in {<<>>, <<VectorFeature({<<0, 0>>}, "", "polygon")>>},
        bat \in {<<>>, <<VectorFeature({<<0, 0>>}, "", "polygon")>>},
        route \in {<<>>, <<VectorFeature({<<1, 0>>}, "", "line")>>}}
    \cup {ProjectLayersOf(<<>>, <<>>, <<>>, <<>>, <<>>)}

FullProjectLayers ==
    ProjectLayersOf(<<RegionalFeature>>,
                    <<VectorFeature(FeaturePixels, "Feuillus", "polygon")>>,
                    <<VectorFeature({<<0, 0>>}, "", "polygon")>>,
                    <<VectorFeature({<<0, 0>>}, "", "polygon")>>,
                    <<VectorFeature({<<1, 0>>}, "", "line")>>)

\* add_layers is called with every project and no failure, and with one
\* project and a failure in one of its layers
AddLayersCalls ==
    {<<layers, NoFailure>> : layers \in ProjectLayers}
    \cup {<<FullProjectLayers, failing>> :
             failing \in {[file |-> "FORMATION_VEGETALE", fail |-> "rasterize"],
                          [file |-> "PARCELLES_GRAPHIQUES", fail |-> "apply_overlay"],
                          [file |-> "BATIMENT", fail |-> "remove_file"]}}

\* the box of the canvas the layers are added to
LayersBox == BoundingBox(0, 0, 5000, 5000)

\* the layers are added to the canvas create_project has made for the box, or
\* to a project file that is not there
InitLayers ==
    /\ dataset = [kind |-> "absent", features |-> <<>>]
    /\ files = [p \in {GraphPath} |-> AbsentFile]
    /\ last = NoCall
    /\ config = DefaultConfig
    /\ project \in {NoProject,
                    NewCanvas(LayersBox, CeilPixels(bb_width(LayersBox), CanvasResolution),
                              CeilPixels(bb_height(LayersBox), CanvasResolution))}
    /\ lastc = NoCanvasCall
    /\ lastl = NoLayerCall
    /\ tmp = EmptyTmp
    /\ lastb = NoBuild
    /\ builds = NoBuilds
    /\ tmpdir = EmptyDir
    /\ settings = DefaultSettings

NextLayers ==
    \/ \E call \in Calls(RegionalLayers, <<RegionalFeature>>) :
          AddRegionalLayer(call[1], call[2])
    \/ \E call \in Calls(VegetationLayers, <<VectorFeature(FeaturePixels, "Feuillus", "polygon")>>) :
          AddVegetationLayer(call[1], call[2])
    \/ \E call \in Calls(RpgLayers, <<VectorFeature({<<0, 0>>}, "", "polygon")>>) :
          AddRpgLayer(call[1], call[2])
    \/ \E call \in Calls(TopoLayers, <<VectorFeature({<<1, 0>>}, "", "line")>>) :
          AddTopoLayer(call[1], call[2])
    \/ \E call \in OverlayCalls : ApplyOverlay(call[1], call[2], call[3])
    \/ \E call \in AddLayersCalls : AddLayers(call[1], call[2])

SpecLayers == InitLayers /\ [][NextLayers]_vars

----------------------------------------------------------------------------
(* The build of a project over one region (commands.rs, layers.rs) *)

\* The files of the temp directory are held by the box of the build their
\* content comes from, NoBox when the file is not there:
\*   regional_geojson    tmp/<code>.geojson
\*   temp_regional_gpkg  tmp/<code>.gpkg
\*   regional_gpkg       tmp/<code>_region.gpkg
\*   layer_gpkg          tmp/<code>_<file>.gpkg, the layer files of the archives

\* the steps of a build that call an external tool or library, in order
BuildSteps ==
    <<"create_region_geojson", "convert_regional", "clip_regional", "extract_layer",
      "convert_layer", "clip_layer", "rasterize", "export_to_jpg",
      "download_satellite_jpeg">>

\* clean_tmp_except_gpkg: every file of the temp directory but the .gpkg files
\* is removed
clean_tmp_except_gpkg(temp) == [temp EXCEPT !.regional_geojson = NoBox]

PrepareResult(outcome, err, temp, ran) ==
    [outcome |-> outcome, err |-> err, tmp |-> temp, ran |-> ran]

\* prepare_layers: create_region_geojson(..).unwrap() panics on an error; the
\* results of convert_to_gpkg and clip_to_bb of the regional layer are dropped
\* (let _ =), a failed one leaves the file it would have written as it was;
\* the errors of extraction, conversion and clipping of the archives' layers are
\* returned
prepare_layers(temp, project_bb, failing) ==
    IF "create_region_geojson" \in failing
    THEN PrepareResult("panic", "unwrap", temp, <<"create_region_geojson">>)
    ELSE LET exported == [temp EXCEPT !.regional_geojson = project_bb]
             converted == IF "convert_regional" \in failing THEN exported
                          ELSE [exported EXCEPT !.temp_regional_gpkg = exported.regional_geojson]
             clip_fails == \/ "clip_regional" \in failing
                           \/ converted.temp_regional_gpkg = NoBox
             clipped == IF clip_fails THEN converted
                        ELSE [converted EXCEPT !.regional_gpkg = converted.temp_regional_gpkg]
             regional == <<"create_region_geojson", "convert_regional", "clip_regional">>
         IN  IF "extract_layer" \in failing
             THEN PrepareResult("error", "Erreur lors de l'extraction", clipped,
                                regional \o <<"extract_layer">>)
             ELSE IF "convert_layer" \in failing
             THEN PrepareResult("error", "Erreur lors de la conversion", clipped,
                                regional \o <<"extract_layer", "convert_layer">>)
             ELSE IF "clip_layer" \in failing
             THEN PrepareResult("error", "Erreur lors du decoupage", clipped,
                                regional \o <<"extract_layer", "convert_layer", "clip_layer">>)
             ELSE PrepareResult("running", "", [clipped EXCEPT !.layer_gpkg = project_bb],
                                regional \o <<"extract_layer", "convert_layer", "clip_layer">>)

\* the layers of a box without features
EmptyLayers == [file \in SeqToSet(LayerFiles) |-> <<>>]

BuildResult(outcome, temp, ran, regional, canvas) ==
    [outcome |-> outcome, tmp |-> temp, ran |-> ran, regional |-> regional,
     canvas |-> canvas]

\* create_project_com from the layers on, one region: the files are renamed
\* into the project's resources, add_layers puts them on the canvas, the
\* images are made, and the temp directory is removed at the end of a build
\* that succeeded
FinishBuild(canvas, prepared, failing) ==
    LET cleaned == clean_tmp_except_gpkg(prepared.tmp)
        renamed == [cleaned EXCEPT !.regional_gpkg = NoBox, !.layer_gpkg = NoBox]
        regional == cleaned.regional_gpkg
    IN  IF regional = NoBox
        THEN BuildResult("error", cleaned, Append(prepared.ran, "rename"), NoBox, canvas)
        ELSE CHOOSE result \in
                 {IF ~r.ok
                  THEN BuildResult("error", renamed,
                                   prepared.ran \o <<"rename", "rasterize">>, regional,
                                   r.canvas)
                  ELSE IF "export_to_jpg" \in failing
                  THEN BuildResult("error", renamed,
                                   prepared.ran \o <<"rename", "rasterize", "export_to_jpg">>,
                                   regional, r.canvas)
                  ELSE IF "download_satellite_jpeg" \in failing
                  THEN BuildResult("error", renamed,
                                   prepared.ran \o <<"rename", "rasterize", "export_to_jpg",
                                                     "download_satellite_jpeg">>,
                                   regional, r.canvas)
                  ELSE BuildResult("ok", EmptyTmp,
                                   prepared.ran \o <<"rename", "rasterize", "export_to_jpg",
                                                     "download_satellite_jpeg">>,
                                   regional, r.canvas) :
                     r \in {add_layers(canvas, EmptyLayers,
                                       IF "rasterize" \in failing
                                       THEN [file |-> ProjectLayer, fail |-> "rasterize"]
                                       ELSE NoFailure)}} : TRUE

\* create_project_com for a box in one region, the steps of failing failing
create_project_com(project_bb, failing) ==
    /\ \E canvas \in {NewCanvas(project_bb,
                                CeilPixels(bb_width(project_bb), CanvasResolution),
                                CeilPixels(bb_height(project_bb), CanvasResolution))} :
       \E prepared \in {prepare_layers(tmp, project_bb, failing)} :
       \E r \in {IF prepared.outcome # "running"
                 THEN BuildResult(prepared.outcome, prepared.tmp, prepared.ran, NoBox, canvas)
                 ELSE FinishBuild(canvas, prepared, failing)} :
          /\ tmp' = r.tmp
          /\ project' = r.canvas
          /\ lastb' = BuildCall(project_bb, failing, r.outcome, r.ran, r.regional)
    /\ UNCHANGED <<dataset, files, last, config, lastc, lastl, builds, tmpdir, settings>>

\* the boxes of the builds, each inside one region
BuildBoxes ==
    {BoundingBox(0, 0, 5000, 5000), BoundingBox(5000, 0, 10000, 5000),
     BoundingBox(0, 5000, 5000, 10000)}

\* at most this many steps of a build fail
MaxFailing == 1
Failings == {f \in SUBSET SeqToSet(BuildSteps) : Cardinality(f) <= MaxFailing}

InitBuild ==
    /\ dataset = [kind |-> "absent", features |-> <<>>]
    /\ files = [p \in {GraphPath} |-> AbsentFile]
    /\ last = NoCall
    /\ config = DefaultConfig
    /\ project = NoProject
    /\ lastc = NoCanvasCall
    /\ lastl = NoLayerCall
    /\ tmp = EmptyTmp
    /\ lastb = NoBuild
    /\ builds = NoBuilds
    /\ tmpdir = EmptyDir
    /\ settings = DefaultSettings

NextBuild ==
    \E project_bb \in BuildBoxes, failing \in Failings :
        create_project_com(project_bb, failing)

SpecBuild == InitBuild /\ [][NextBuild]_vars

----------------------------------------------------------------------------
(* The regions of a build, one after the other (commands.rs 150-188) *)

\* the files prepare_layers names without the region code
SharedLayerDir == <<"", "layer/">>
SharedLayerGpkg == <<"", "layer_tmp.gpkg">>

\* clean_tmp_except_gpkg on the directory: the directories and every file
\* whose extension is not gpkg are removed, the .gpkg files stay
CleanExceptGpkg(dir) ==
    [path \in TmpPaths |->
        IF path[2] \in {"geojson", "layer/", "temp_rpg_layer.tif", "output.tif"}
        THEN NoFile ELSE dir[path]]

\* a file met in the temp directory: its path, the region that wrote it, and
\* the region being prepared
Met(path, by, region) == [path |-> path, by |-> by, region |-> region]

\* the sequences of region codes find_intersecting_regions gives for a box
MaxRegions == 2
RegionSequences ==
    {<<c>> : c \in RegionCodes}
    \cup {codes \in UNION {[1..n -> RegionCodes] : n \in 2..MaxRegions} :
             \A i, j \in 1..Len(codes) : i # j => codes[i] # codes[j]}

\* create_project_com up to the loop over the regions: the temp directory is
\* created if it is not there, the regions of the box are found, the project
\* is created
StartRegions(b, codes) ==
    /\ builds[b].pc \in {"idle", "done", "error"}
    /\ builds' = [builds EXCEPT ![b] = BuildState("prepare", codes, 1, <<>>, {}, <<>>, 0)]
    /\ UNCHANGED <<dataset, files, last, config, project, lastc, lastl, tmp, lastb, tmpdir,
                   settings>>

\* one turn of the loop: clean_tmp_except_gpkg when it is not the first
\* region, prepare_layers for the region, clean_tmp_except_gpkg. ogr2ogr is
\* given no -overwrite: existing says what it does when its output file is
\* there already, fail or write over it
PrepareRegion(b, existing) ==
    /\ builds[b].pc = "prepare"
    /\ LET build == builds[b]
           code == build.codes[build.idx]
           cleaned == IF build.idx > 1 THEN CleanExceptGpkg(tmpdir) ELSE tmpdir
           regional == [cleaned EXCEPT ![<<code, "geojson">>] = code,
                                       ![<<code, "gpkg">>] = code,
                                       ![<<code, "region.gpkg">>] = code]
           extracted == [regional EXCEPT ![SharedLayerDir] = code]
           found == extracted[SharedLayerGpkg]
           met == IF found = NoFile THEN build.met
                  ELSE build.met \cup {Met(SharedLayerGpkg, found, code)}
           clipped == [extracted EXCEPT ![SharedLayerGpkg] = code,
                                        ![<<code, "layer.gpkg">>] = code]
       IN  IF existing = "fails"
              /\ (found # NoFile \/ extracted[<<code, "layer.gpkg">>] # NoFile)
           THEN /\ tmpdir' = extracted
                /\ builds' = [builds EXCEPT ![b] = [build EXCEPT !.pc = "error", !.met = met]]
           ELSE /\ tmpdir' = CleanExceptGpkg(clipped)
                /\ builds' = [builds EXCEPT ![b] =
                                [build EXCEPT !.pc = IF build.idx = Len(build.codes)
                                                     THEN "fuse" ELSE "prepare",
                                              !.idx = build.idx + 1,
                                              !.prepared = Append(build.prepared, code),
                                              !.met = met]]
    /\ UNCHANGED <<dataset, files, last, config, project, lastc, lastl, tmp, lastb, settings>>

\* the rest of create_project_com: the regions' files fused or renamed into
\* the project, the layers added, the images made, and remove_dir_all("tmp")
\* at the end; an error on the way returns with the temp directory as it is
FuseRegions(b, ok) ==
    /\ builds[b].pc = "fuse"
    /\ IF ok
       THEN /\ tmpdir' = EmptyDir
            /\ builds' = [builds EXCEPT ![b].pc = "done"]
       ELSE /\ tmpdir' = tmpdir
            /\ builds' = [builds EXCEPT ![b].pc = "error"]
    /\ UNCHANGED <<dataset, files, last, config, project, lastc, lastl, tmp, lastb, settings>>

InitRegions ==
    /\ dataset = [kind |-> "absent", features |-> <<>>]
    /\ files = [p \in {GraphPath} |-> AbsentFile]
    /\ last = NoCall
    /\ config = DefaultConfig
    /\ project = NoProject
    /\ lastc = NoCanvasCall
    /\ lastl = NoLayerCall
    /\ tmp = EmptyTmp
    /\ lastb = NoBuild
    /\ builds = NoBuilds
    /\ tmpdir = EmptyDir
    /\ settings = DefaultSettings

NextRegions ==
    \/ \E codes \in RegionSequences : StartRegions("build1", codes)
    \/ \E existing \in {"fails", "overwrites"} : PrepareRegion("build1", existing)
    \/ \E ok \in BOOLEAN : FuseRegions("build1", ok)

SpecRegions == InitRegions /\ [][NextRegions]_vars

----------------------------------------------------------------------------
(* Two builds adding a layer at the same time (layers.rs 229-255, processing.rs) *)

\* the rasters of add_rpg_layer and apply_overlay: literal paths, the same for
\* every project
TempLayerRaster == <<"", "temp_rpg_layer.tif">>
OutputRaster == <<"", "output.tif">>

\* the build has a file of the temp directory in hand: noted when another
\* build wrote it
MetBy(b, path) ==
    IF tmpdir[path] \in {NoFile, b} THEN builds[b].met
    ELSE builds[b].met \cup {Met(path, tmpdir[path], b)}

\* a build comes to add_rpg_layer for its own project file
StartLayer(b) ==
    /\ builds[b].pc \in {"idle", "done", "error"}
    /\ builds' = [builds EXCEPT ![b] = BuildState("rasterize", <<>>, 0, <<>>, {}, <<>>, 0)]
    /\ UNCHANGED <<dataset, files, last, config, project, lastc, lastl, tmp, lastb, tmpdir,
                   settings>>

\* rasterize_layer: gdal_rasterize writes tmp/temp_rpg_layer.tif
RasterizeLayer(b) ==
    /\ builds[b].pc = "rasterize"
    /\ builds' = [builds EXCEPT ![b].pc = "overlay", ![b].met = MetBy(b, TempLayerRaster)]
    /\ tmpdir' = [tmpdir EXCEPT ![TempLayerRaster] = b]
    /\ UNCHANGED <<dataset, files, last, config, project, lastc, lastl, tmp, lastb, settings>>

\* apply_overlay up to the rename: the overlay raster is opened and read, an
\* error if it is not there; tmp/output.tif is created and written
WriteOutput(b) ==
    /\ builds[b].pc = "overlay"
    /\ IF tmpdir[TempLayerRaster] = NoFile
       THEN /\ builds' = [builds EXCEPT ![b].pc = "error"]
            /\ tmpdir' = tmpdir
       ELSE /\ builds' = [builds EXCEPT ![b].pc = "rename",
                                        ![b].met = MetBy(b, TempLayerRaster)
                                                   \cup MetBy(b, OutputRaster)]
            /\ tmpdir' = [tmpdir EXCEPT ![OutputRaster] = b]
    /\ UNCHANGED <<dataset, files, last, config, project, lastc, lastl, tmp, lastb, settings>>

\* std::fs::rename(output_file, project_file_path): an error if the output is
\* not there, else the file that is there becomes the build's project file
RenameOutput(b) ==
    /\ builds[b].pc = "rename"
    /\ IF tmpdir[OutputRaster] = NoFile
       THEN /\ builds' = [builds EXCEPT ![b].pc = "error"]
            /\ tmpdir' = tmpdir
       ELSE /\ builds' = [builds EXCEPT ![b].pc = "remove",
                                        ![b].met = MetBy(b, OutputRaster)]
            /\ tmpdir' = [tmpdir EXCEPT ![OutputRaster] = NoFile]
    /\ UNCHANGED <<dataset, files, last, config, project, lastc, lastl, tmp, lastb, settings>>

\* std::fs::remove_file(temp_rpg_layer)?
RemoveTempLayer(b) ==
    /\ builds[b].pc = "remove"
    /\ IF tmpdir[TempLayerRaster] = NoFile
       THEN /\ builds' = [builds EXCEPT ![b].pc = "error"]
            /\ tmpdir' = tmpdir
       ELSE /\ builds' = [builds EXCEPT ![b].pc = "done",
                                        ![b].met = MetBy(b, TempLayerRaster)]
            /\ tmpdir' = [tmpdir EXCEPT ![TempLayerRaster] = NoFile]
    /\ UNCHANGED <<dataset, files, last, config, project, lastc, lastl, tmp, lastb, settings>>

NextConcurrent ==
    \E b \in BuildIds :
        \/ StartLayer(b)
        \/ RasterizeLayer(b)
        \/ WriteOutput(b)
        \/ RenameOutput(b)
        \/ RemoveTempLayer(b)

SpecConcurrent == InitRegions /\ [][NextConcurrent]_vars

----------------------------------------------------------------------------
(* The configuration during a build (utils.rs 399-433, commands.rs 443-451) *)

MaxSaves == 2

\* the accessors create_project_com comes to, in order: commands.rs 93 and 109,
\* layers.rs 35 and 36, utils.rs 372, layers.rs 733 and 739
ConfigReads ==
    <<"cache_dir", "projects_dir", "cache_dir", "temp_dir", "temp_dir", "temp_dir",
      "resolution">>

\* Option<String> arguments of save_settings; NoFile stands for None
SettingValues == {NoFile, "elsewhere"}

\* Config::update_settings: output_location is kept when None is given,
\* gdal_path is always replaced; then the configuration is saved
update_settings(self, output_location, gdal_path) ==
    [self EXCEPT !.output_location = IF output_location # NoFile THEN output_location ELSE @,
                 !.gdal_path = gdal_path,
                 !.saved = @ + 1]

\* create_project_com is entered: nothing of CONFIG is held
StartBuild(b) ==
    /\ builds[b].pc \in {"idle", "done"}
    /\ builds' = [builds EXCEPT ![b] = BuildState("build", <<>>, 0, <<>>, {}, <<>>, 0)]
    /\ UNCHANGED <<dataset, files, last, config, project, lastc, lastl, tmp, lastb, tmpdir,
                   settings>>

\* cache_dir(), projects_dir(), temp_dir(), resolution(): get_config() locks
\* CONFIG, the field is copied and the guard is dropped with the expression
ReadConfig(b) ==
    /\ builds[b].pc = "build"
    /\ builds[b].idx < Len(ConfigReads)
    /\ LET field == ConfigReads[builds[b].idx + 1] IN
       builds' = [builds EXCEPT ![b].idx = @ + 1,
                                ![b].reads = Append(@, <<field, settings[field]>>)]
    /\ UNCHANGED <<dataset, files, last, config, project, lastc, lastl, tmp, lastb, tmpdir,
                   settings>>

\* create_project_com returns
EndBuild(b) ==
    /\ builds[b].pc = "build"
    /\ builds[b].idx = Len(ConfigReads)
    /\ builds' = [builds EXCEPT ![b].pc = "done"]
    /\ UNCHANGED <<dataset, files, last, config, project, lastc, lastl, tmp, lastb, tmpdir,
                   settings>>

\* save_settings: CONFIG.lock() is free between two reads of a build, so the
\* command gets it and writes; each build under way has the write noted
save_settings(output_location, gdal_path) ==
    /\ settings.saved < MaxSaves
    /\ settings' = update_settings(settings, output_location, gdal_path)
    /\ builds' = [b \in BuildIds |->
                    IF builds[b].pc = "build"
                    THEN [builds[b] EXCEPT !.writes = @ + 1]
                    ELSE builds[b]]
    /\ UNCHANGED <<dataset, files, last, config, project, lastc, lastl, tmp, lastb, tmpdir>>

NextConfig ==
    \/ \E b \in BuildIds : StartBuild(b)
    \/ \E b \in BuildIds : ReadConfig(b)
    \/ \E b \in BuildIds : EndBuild(b)
    \/ \E output_location \in SettingValues, gdal_path \in SettingValues :
           save_settings(output_location, gdal_path)

SpecConfig == InitRegions /\ [][NextConfig]_vars

----------------------------------------------------------------------------
(* Properties of the layers *)

\* the functions that rasterize a layer and put it on the canvas
OverlayOps == {"add_regional_layer", "add_vegetation_layer", "add_rpg_layer"}
LayerOps == OverlayOps \cup {"add_topo_layer"}

\* the canvas create_project made and the layers are added to
CreatedCanvas ==
    NewCanvas(LayersBox, CeilPixels(bb_width(LayersBox), CanvasResolution),
              CeilPixels(bb_height(LayersBox), CanvasResolution))

\* the value of the three colour bands at a pixel
Colour(canvas, p) == <<BandAt(canvas.bands[1], p), BandAt(canvas.bands[2], p),
                       BandAt(canvas.bands[3], p)>>

\* C11: band 4 of the canvas is 255 at every pixel after creation and after
\* every sequence of layer additions, successful or not
C11_AlphaStaysOpaque ==
    project.exists =>
        /\ 4 \in DOMAIN project.bands
        /\ \A p \in SamplePixels : BandAt(project.bands[4], p) = 255

\* a vegetation layer has painted the canvas, and band 4 is as it was
C11_Witness ==
    /\ lastl.op = "add_vegetation_layer" /\ lastl.ok
    /\ lastl.pre.exists
    /\ Colour(project, <<0, 0>>) # Colour(lastl.pre, <<0, 0>>)
    /\ BandAt(project.bands[4], <<0, 0>>) = 255

\* the layer function of the last call, called again on a canvas
LayerFunction(op, project_ds, layer) ==
    IF op = "add_regional_layer" THEN add_regional_layer(project_ds, layer, "none")
    ELSE IF op = "add_vegetation_layer" THEN add_vegetation_layer(project_ds, layer, "none")
    ELSE IF op = "add_rpg_layer" THEN add_rpg_layer(project_ds, layer, "none")
    ELSE add_topo_layer(project_ds, layer, "none")

\* C12: an overlay applied a second time leaves the canvas as the first
\* application left it: apply_overlay with the same overlay raster and mask
\* predicate, each layer function with the same layer, the topographic
\* blanking included
C12_OverlayIdempotent ==
    /\ (lastl.op = "apply_overlay" /\ lastl.ok) =>
          OverlayCanvas(project, lastl.overlay, lastl.layer) = project
    /\ (lastl.op \in LayerOps /\ lastl.ok) =>
          /\ LayerFunction(lastl.op, project, lastl.layer).ok
          /\ LayerFunction(lastl.op, project, lastl.layer).canvas = project

\* apply_overlay has changed the canvas
C12_Witness ==
    /\ lastl.op = "apply_overlay" /\ lastl.ok
    /\ \E p \in FeaturePixels : Colour(project, p) # Colour(lastl.pre, p)

\* the colour a vegetation layer paints at a pixel: that of the first class,
\* in the order broadleaf, unclassified, other, with a feature there
VegetationColour(layer, p) ==
    IF p \in Covered(SelectWhere(layer, feuillus_types)) THEN FeuillusBurn
    ELSE IF p \in Covered(SelectWhere(layer, undefined_types)) THEN UndefinedBurn
    ELSE OtherBurn

\* C13: after add_layers, a pixel that several layers mask holds in bands 1-3
\* the value of the layer applied last among them, never that of an earlier
\* one: zero where a topographic layer lies, else the parcels' value where a
\* parcel lies, else the vegetation's value where vegetation lies; a pixel no
\* layer masks holds what it held before
C13_LaterLayerWins ==
    (lastl.op = "add_layers" /\ lastl.ok) =>
        \A p \in SamplePixels :
            LET topo == \E k \in 1..Len(TopoFiles) : p \in Covered(lastl.layer[TopoFiles[k]])
                rpg == p \in Covered(lastl.layer["PARCELLES_GRAPHIQUES"])
                veg == p \in Covered(lastl.layer["FORMATION_VEGETALE"])
            IN  Colour(project, p) =
                    IF topo THEN <<0, 0, 0>>
                    ELSE IF rpg THEN RpgBurn
                    ELSE IF veg THEN VegetationColour(lastl.layer["FORMATION_VEGETALE"], p)
                    ELSE Colour(lastl.pre, p)

\* vegetation and a parcel at the first pixel, vegetation and a road at the
\* second: the parcel's value and zero are what the canvas holds
C13_Witness ==
    /\ lastl.op = "add_layers" /\ lastl.ok
    /\ <<0, 0>> \in Covered(lastl.layer["FORMATION_VEGETALE"])
    /\ <<0, 0>> \in Covered(lastl.layer["PARCELLES_GRAPHIQUES"])
    /\ lastl.layer["BATIMENT"] = <<>>
    /\ <<1, 0>> \in Covered(lastl.layer["FORMATION_VEGETALE"])
    /\ <<1, 0>> \in Covered(lastl.layer["TRONCON_DE_ROUTE"])
    /\ Colour(project, <<0, 0>>) = RpgBurn
    /\ Colour(project, <<1, 0>>) = <<0, 0, 0>>

\* C17: a layer without features, no step failing, is no error and changes
\* nothing: each layer function returns Ok and leaves the canvas as it was,
\* and add_layers goes on through every remaining layer file
C17_EmptyLayerIsNoOp ==
    /\ (lastl.op \in LayerOps /\ lastl.layer = <<>> /\ lastl.fail = "none"
            /\ lastl.pre.exists) =>
          (lastl.ok /\ project = lastl.pre)
    /\ (lastl.op = "add_layers" /\ lastl.fail = NoFailure /\ lastl.pre.exists) =>
          /\ lastl.ok
          /\ lastl.applied = LayerFiles
          /\ (\A k \in 1..Len(LayerFiles) : lastl.layer[LayerFiles[k]] = <<>>) =>
                project = lastl.pre

\* a topographic layer without features added to a painted canvas
C17_Witness ==
    /\ lastl.op = "add_topo_layer" /\ lastl.layer = <<>> /\ lastl.ok
    /\ lastl.pre.exists /\ lastl.pre # CreatedCanvas
    /\ project = lastl.pre

\* C19: after create_project and after every sequence of layer additions the
\* canvas has 4 bands, the width and height and the geotransform (xmin, 10, 0,
\* ymax, 0, -10) it was created with
C19_CanvasShapeKept ==
    project.exists =>
        /\ DOMAIN project.bands = 1..4
        /\ project.width = CreatedCanvas.width
        /\ project.height = CreatedCanvas.height
        /\ project.geotransform = <<LayersBox.xmin, 10, 0, LayersBox.ymax, 0, -10>>

\* a topographic layer has blanked a painted pixel
C19_Witness ==
    /\ lastl.op = "add_topo_layer" /\ lastl.ok
    /\ lastl.pre.exists
    /\ \E p \in FeaturePixels :
          Colour(lastl.pre, p) # <<0, 0, 0>> /\ Colour(project, p) = <<0, 0, 0>>
    /\ Len(project.bands) = 4

\* the mask predicate of the last call
PredicateOf(call) == IF call.op = "apply_overlay" THEN call.layer ELSE "positive"

\* C20: apply_overlay, called with a raster or by a layer function: the mask
\* is true at a pixel exactly when one of the three overlay bands satisfies the
\* predicate there; each of bands 1-3 holds the overlay band's value where the
\* mask is true and the value it held before where the mask is false
C20_OverlayPixelRule ==
    (lastl.op \in OverlayOps \cup {"apply_overlay"} /\ lastl.ok) =>
        \A p \in SamplePixels :
            LET mask == \E b \in 1..3 :
                            MaskCondition(PredicateOf(lastl),
                                          BandAt(lastl.overlay.bands[b], p))
            IN  \A b \in 1..3 :
                    BandAt(project.bands[b], p) =
                        IF mask THEN BandAt(lastl.overlay.bands[b], p)
                        ELSE BandAt(lastl.pre.bands[b], p)

\* an overlay with a value in its second band alone has put its zero into
\* the first band of a painted pixel
C20_Witness ==
    /\ lastl.op = "apply_overlay" /\ lastl.ok /\ lastl.layer = "positive"
    /\ Colour(lastl.overlay, <<0, 0>>) = <<0, 7, 0>>
    /\ BandAt(lastl.pre.bands[1], <<0, 0>>) > 0
    /\ Colour(project, <<0, 0>>) = <<0, 7, 0>>

----------------------------------------------------------------------------
(* Properties of the slicer *)

\* the tile positions of the canvas's image for the configured tile size
Positions ==
    slice_and_process_images(project.width, project.height, config.slice_factor,
                             calculate_base_coordinates(get_project_bounding_box(project).xmin,
                                                        get_project_bounding_box(project).ymin))

\* two tiles share a pixel
Overlap(a, b) ==
    /\ a.img_x < b.img_x + b.size /\ b.img_x < a.img_x + a.size
    /\ a.img_y < b.img_y + b.size /\ b.img_y < a.img_y + a.size

\* C14: every tile slice_and_process_images emits is a full s x s crop inside
\* the W x H image, whatever W and H, and no two tiles overlap; when W = m*s
\* and H = n*s there are exactly m*n tiles and they cover every pixel
C14_WholeTilesOnly ==
    (lastc.op = "export_project" /\ lastc.ok) =>
        LET W == project.width
            H == project.height
            s == config.slice_factor
            tiles == lastc.tiles
        IN  /\ \A i \in 1..Len(tiles) :
                  /\ tiles[i].size = s
                  /\ 0 <= tiles[i].img_x /\ tiles[i].img_x + s <= W
                  /\ 0 <= tiles[i].img_y /\ tiles[i].img_y + s <= H
            /\ \A i, j \in 1..Len(tiles) : i # j => ~Overlap(tiles[i], tiles[j])
            /\ Len(lastc.written) = 2 * Len(tiles)
            /\ (W % s = 0 /\ H % s = 0) =>
                  /\ Len(tiles) = (W \div s) * (H \div s)
                  /\ CoversEveryPixel(tiles, W, H, s)

\* an image of two tiles by two gives four tile pairs
C14_Witness ==
    /\ lastc.op = "export_project" /\ lastc.ok
    /\ project.width = 2 * config.slice_factor
    /\ project.height = 2 * config.slice_factor
    /\ Len(lastc.tiles) = 4
    /\ Len(lastc.written) = 8

\* C15: every tile's name carries coordX = floor(xmin / 1000) + (img_x *
\* resolution) / 1000 and coordY = floor(ymin / 1000) + ((H - img_y - s) *
\* resolution) / 1000 with the configured resolution, and the tiles come with
\* coordY ascending and, within a row, coordX ascending
C15_TileNamesUseConfiguredResolution ==
    (lastc.op = "export_project" /\ lastc.ok) =>
        LET tiles == lastc.tiles
            bb == get_project_bounding_box(project)
        IN  /\ \A i \in 1..Len(tiles) :
                  /\ tiles[i].coord_x =
                        KmCoordinate(bb.xmin)
                        + (tiles[i].img_x * config.resolution) \div 1000
                  /\ tiles[i].coord_y =
                        KmCoordinate(bb.ymin)
                        + ((project.height - tiles[i].img_y - config.slice_factor)
                           * config.resolution) \div 1000
            /\ \A i \in 1..(Len(tiles) - 1) :
                  \/ tiles[i].coord_y < tiles[i + 1].coord_y
                  \/ /\ tiles[i].coord_y = tiles[i + 1].coord_y
                     /\ tiles[i].coord_x <= tiles[i + 1].coord_x

\* the same with the 10 metres per pixel the canvas is created with
TileNamesUseCanvasResolution ==
    (lastc.op = "export_project" /\ lastc.ok) =>
        LET tiles == lastc.tiles
            bb == get_project_bounding_box(project)
        IN  /\ \A i \in 1..Len(tiles) :
                  /\ tiles[i].coord_x =
                        KmCoordinate(bb.xmin)
                        + (tiles[i].img_x * CanvasResolution) \div 1000
                  /\ tiles[i].coord_y =
                        KmCoordinate(bb.ymin)
                        + ((project.height - tiles[i].img_y - config.slice_factor)
                           * CanvasResolution) \div 1000
            /\ \A i \in 1..(Len(tiles) - 1) :
                  \/ tiles[i].coord_y < tiles[i + 1].coord_y
                  \/ /\ tiles[i].coord_y = tiles[i + 1].coord_y
                     /\ tiles[i].coord_x <= tiles[i + 1].coord_x

\* C16: when the save of one tile image fails, the failure is reported, the
\* other image of that tile is written, and both images of every other tile
\* position are written
C16_WriteFailureDoesNotAbort ==
    (/\ lastc.op = "export_project" /\ project.exists
     /\ lastc.failing # NoWriteFailure /\ lastc.failing[1] <= Len(Positions)) =>
        /\ lastc.err # ""
        /\ \A k \in 1..Len(Positions) : \A i \in 1..Len(SliceKinds) :
              <<k, SliceKinds[i]>> # lastc.failing =>
                  \E j \in 1..Len(lastc.written) : lastc.written[j] = <<k, SliceKinds[i]>>

\* what the code does: the failure is returned as the error of the export and
\* nothing is saved after it
WriteFailureAborts ==
    (/\ lastc.op = "export_project" /\ project.exists
     /\ lastc.failing # NoWriteFailure /\ lastc.failing[1] <= Len(Positions)) =>
        /\ ~lastc.ok /\ lastc.err # ""
        /\ \A j \in 1..Len(lastc.written) :
              \/ lastc.written[j][1] < lastc.failing[1]
              \/ lastc.written[j] = <<lastc.failing[1], "veget">> /\ lastc.failing[2] = "ortho"

----------------------------------------------------------------------------
(* Properties of the build *)

\* the steps of the last build that ran and failed
FailedSteps == {lastb.ran[i] : i \in 1..Len(lastb.ran)} \cap lastb.failing

\* C18: when a step of a build that calls an external tool fails, the build
\* ends there with an error returned to the caller: no step runs after the
\* failed one, and the regional layer put on the canvas is never one an
\* earlier build has left behind
C18_ToolkitFailureIsFatal ==
    /\ FailedSteps # {} =>
          /\ lastb.outcome = "error"
          /\ lastb.ran[Len(lastb.ran)] \in lastb.failing
    /\ lastb.regional \in {NoBox, lastb.bb}

\* a build returns Ok with the regional layer an earlier, failed build left in
\* the temp directory
StaleRegionalLayerUsed ==
    /\ lastb.outcome = "ok"
    /\ lastb.regional \notin {NoBox, lastb.bb}

\* what the code does for the steps whose error it returns: from the
\* extraction of the archives' layers on, a failed step ends the build with an
\* error
LayerStepFailureIsFatal ==
    (FailedSteps \cap {"extract_layer", "convert_layer", "clip_layer", "rasterize",
                       "export_to_jpg", "download_satellite_jpeg"} # {}) =>
        /\ lastb.outcome = "error"
        /\ lastb.ran[Len(lastb.ran)] \in lastb.failing

----------------------------------------------------------------------------
(* Properties of the layer categories *)

\* C21: the regional, vegetation and parcel layers mask the pixels where a
\* band of the rasterized layer is > 0 and copy the rasterized value there; a
\* topographic layer masks the pixels where a band of its raster is not 255,
\* which are the pixels its features cover, and sets bands 1-3 to 0 exactly
\* there; every unmasked pixel keeps its value
C21_OverlayModePerCategory ==
    /\ (lastl.op \in OverlayOps /\ lastl.ok) =>
          \A p \in SamplePixels :
              Colour(project, p) =
                  IF \E b \in 1..3 : BandAt(lastl.overlay.bands[b], p) > 0
                  THEN Colour(lastl.overlay, p)
                  ELSE Colour(lastl.pre, p)
    /\ (lastl.op = "add_topo_layer" /\ lastl.ok /\ lastl.layer # <<>>) =>
          \A p \in SamplePixels :
              /\ (\E b \in 1..3 : BandAt(lastl.overlay.bands[b], p) # 255)
                    <=> p \in Covered(lastl.layer)
              /\ Colour(project, p) =
                    IF \E b \in 1..3 : BandAt(lastl.overlay.bands[b], p) # 255
                    THEN <<0, 0, 0>>
                    ELSE Colour(lastl.pre, p)

\* a topographic layer has blanked one painted pixel and left another painted
\* pixel, where its raster is 255, as it was
C21_Witness ==
    /\ lastl.op = "add_topo_layer" /\ lastl.ok /\ lastl.layer # <<>>
    /\ \E p, q \in FeaturePixels :
          /\ p \in Covered(lastl.layer) /\ q \notin Covered(lastl.layer)
          /\ Colour(lastl.pre, p) # <<0, 0, 0>> /\ Colour(project, p) = <<0, 0, 0>>
          /\ Colour(lastl.overlay, q) = <<255, 255, 255>>
          /\ Colour(project, q) # <<0, 0, 0>> /\ Colour(project, q) = Colour(lastl.pre, q)

\* the category of a layer file: 0 regional, 1 vegetation, 2 parcels, 3 topographic
Category(file) ==
    IF file = ProjectLayer THEN 0
    ELSE IF file = "FORMATION_VEGETALE" THEN 1
    ELSE IF file = "PARCELLES_GRAPHIQUES" THEN 2
    ELSE 3

\* the order the topographic layers are listed in
ListedTopoOrder ==
    <<"AERODROME", "CONSTRUCTION_SURFACIQUE", "EQUIPEMENT_DE_TRANSPORT", "RESERVOIR",
      "TERRAIN_DE_SPORT", "TRONCON_DE_VOIE_FERREE", "ZONE_D_ESTRAN", "BATIMENT",
      "COURS_D_EAU", "PLAN_D_EAU", "SURFACE_HYDROGRAPHIQUE", "TRONCON_DE_ROUTE",
      "VOIE_NOMMEE">>

\* C22: whatever the layers hold and whichever step fails, add_layers goes
\* through the layer files in the order regional, vegetation, parcels,
\* topographic layers as listed: the files it has gone through are a prefix of
\* that order, so no layer of a later category comes before one of an earlier
\* category
C22_FixedLayerOrder ==
    lastl.op = "add_layers" =>
        LET applied == lastl.applied
            order == <<ProjectLayer, "FORMATION_VEGETALE", "PARCELLES_GRAPHIQUES">>
                     \o ListedTopoOrder
        IN  /\ Len(applied) <= Len(order)
            /\ applied = SubSeq(order, 1, Len(applied))
            /\ \A i, j \in 1..Len(applied) :
                  i < j => Category(applied[i]) <= Category(applied[j])
            /\ lastl.ok => Len(applied) = Len(order)

\* add_layers has gone through all sixteen files of a project with vegetation,
\* a parcel and a road
C22_Witness ==
    /\ lastl.op = "add_layers" /\ lastl.ok /\ lastl.pre.exists
    /\ Len(lastl.applied) = 16
    /\ lastl.applied[1] = ProjectLayer /\ lastl.applied[16] = "VOIE_NOMMEE"
    /\ lastl.layer["FORMATION_VEGETALE"] # <<>>
    /\ lastl.layer["PARCELLES_GRAPHIQUES"] # <<>>
    /\ lastl.layer["TRONCON_DE_ROUTE"] # <<>>

----------------------------------------------------------------------------
(* Properties of the vegetation layer *)

\* the features of the three filters of the last vegetation layer
FilterClasses ==
    <<SelectWhere(lastl.layer, feuillus_types), SelectWhere(lastl.layer, undefined_types),
      SelectWhere(lastl.layer, OtherEssences)>>

\* C23: the merged vegetation raster holds, at every pixel and in every band,
\* the value of the first class with a feature there, in the order broadleaf,
\* unclassified, other, and 0 where no class has one; a lower class under a
\* higher one is ignored, and no value is a sum or a mean
C23_VegetationPrecedence ==
    (lastl.op = "add_vegetation_layer" /\ lastl.ok) =>
        \A p \in SamplePixels :
            Colour(lastl.overlay, p) =
                IF p \in Covered(FilterClasses[1]) THEN <<80, 200, 120>>
                ELSE IF p \in Covered(FilterClasses[2]) THEN <<25, 50, 60>>
                ELSE IF p \in Covered(FilterClasses[3]) THEN <<50, 200, 80>>
                ELSE <<0, 0, 0>>

\* the first pixel lies under an unclassified and a broadleaf feature, or under
\* an other and an unclassified one, and holds the higher class's value
C23_Witness ==
    /\ lastl.op = "add_vegetation_layer" /\ lastl.ok
    /\ <<0, 0>> \in Covered(FilterClasses[2])
    /\ <<0, 0>> \in Covered(FilterClasses[1])
    /\ Colour(lastl.overlay, <<0, 0>>) = <<80, 200, 120>>
    /\ Colour(project, <<0, 0>>) = <<80, 200, 120>>

\* the number of filters that select feature k of the last vegetation layer
FiltersSelecting(k) ==
    Cardinality({c \in 1..3 :
                    \E j \in 1..Len(FilterClasses[c]) : FilterClasses[c][j] = lastl.layer[k]})

\* C24: every feature of a vegetation layer, whatever its ESSENCE, a NULL one
\* included, is selected by exactly one of the three filters
C24_FiltersPartitionFeatures ==
    (lastl.op = "add_vegetation_layer" /\ lastl.pre.exists) =>
        \A k \in 1..Len(lastl.layer) : FiltersSelecting(k) = 1

\* what the code does: a feature with an ESSENCE is selected by exactly one
\* filter, a feature without by none
FiltersPartitionNamedFeatures ==
    (lastl.op = "add_vegetation_layer" /\ lastl.pre.exists) =>
        \A k \in 1..Len(lastl.layer) :
            FiltersSelecting(k) = IF lastl.layer[k].essence = NullEssence THEN 0 ELSE 1

----------------------------------------------------------------------------
(* Properties of a layer function's effect on the project file *)

\* C29, as stated: whenever a layer function returns an error the canvas is
\* exactly as it was before the call
C29_ErrorLeavesCanvas ==
    (lastl.op \in LayerOps /\ ~lastl.ok) => project = lastl.pre

\* C29, as the code has it: an error of a step up to the replacement of the
\* project file leaves the canvas as it was before the call; the temporary
\* rasters are removed after the replacement, and an error of that removal is
\* returned with the canvas the successful call would have left
C29_ErrorBeforeReplacementLeavesCanvas ==
    (lastl.op \in LayerOps /\ ~lastl.ok) =>
        IF lastl.err = "remove_file"
        THEN project = LayerFunction(lastl.op, lastl.pre, lastl.layer).canvas
        ELSE project = lastl.pre

\* the parcels layer has failed in apply_overlay on a painted canvas, which is
\* as it was
C29_Witness ==
    /\ lastl.op = "add_rpg_layer" /\ ~lastl.ok /\ lastl.layer # <<>>
    /\ lastl.pre.exists /\ lastl.pre # CreatedCanvas
    /\ lastl.err = "apply_overlay" /\ project = lastl.pre

\* the parcels layer has failed in the removal of its raster, the parcels painted
ErrorAfterReplacement ==
    /\ lastl.op = "add_rpg_layer" /\ ~lastl.ok
    /\ lastl.err = "remove_file" /\ project # lastl.pre

\* C30: add_regional_layer leaves every band of the canvas as it was, whatever
\* the regional layer holds and however the call ends
C30_RegionalLayerPaintsNothing ==
    (lastl.op = "add_regional_layer" /\ lastl.pre.exists) =>
        /\ project = lastl.pre
        /\ lastl.overlay.exists =>
              \A p \in SamplePixels :
                  ~\E b \in 1..3 : BandAt(lastl.overlay.bands[b], p) > 0

\* the regional layer with its feature added to a painted canvas
C30_Witness ==
    /\ lastl.op = "add_regional_layer" /\ lastl.ok /\ lastl.layer # <<>>
    /\ lastl.pre.exists /\ lastl.pre # CreatedCanvas
    /\ \E p \in FeaturePixels :
          p \in Covered(lastl.layer) /\ Colour(project, p) # <<0, 0, 0>>
    /\ project = lastl.pre

----------------------------------------------------------------------------
(* The slicer with small tiles *)

\* config.json with slice factors below and above 100 pixels, the kilometre of
\* the tile names
TileConfigs == {[resolution |-> 10, slice_factor |-> f] : f \in {50, 100, 250, 500}}

\* boxes of one and two default tiles each way
TileBoxes == {BoundingBox(0, 0, w, h) : w \in {5000, 10000}, h \in {5000, 10000}}

InitTiles ==
    /\ dataset = [kind |-> "absent", features |-> <<>>]
    /\ files = [p \in {GraphPath} |-> AbsentFile]
    /\ last = NoCall
    /\ config \in TileConfigs
    /\ project = NoProject
    /\ lastc = NoCanvasCall
    /\ lastl = NoLayerCall
    /\ tmp = EmptyTmp
    /\ lastb = NoBuild
    /\ builds = NoBuilds
    /\ tmpdir = EmptyDir
    /\ settings = DefaultSettings

NextTiles ==
    \/ \E project_bb \in TileBoxes, toolkit_ok \in BOOLEAN :
          create_project(project_bb, toolkit_ok)
    \/ \E failing \in WriteFailures : export_project(failing)

SpecTiles == InitTiles /\ [][NextTiles]_vars

\* the name of a tile's files: <coord_x>_<coord_y>_<slice_factor>.jpg and
\* <coord_x>_<coord_y>_veget_<slice_factor>.jpg
TileName(tile) == <<tile.coord_x, tile.coord_y, tile.size>>

\* C28: in one slicing run, whatever the image size and the slice factor, no
\* two emitted tile positions get the same (coordX, coordY, size) name
C28_TileNamesUnique ==
    lastc.op = "export_project" =>
        \A i, j \in 1..Len(lastc.tiles) :
            i # j => TileName(lastc.tiles[i]) # TileName(lastc.tiles[j])

\* what the code does: the names are distinct when the slice factor is at
\* least the 100 pixels the names count in
TileNamesUniqueFromHundred ==
    (lastc.op = "export_project" /\ config.slice_factor >= 100) =>
        \A i, j \in 1..Len(lastc.tiles) :
            i # j => TileName(lastc.tiles[i]) # TileName(lastc.tiles[j])

----------------------------------------------------------------------------
(* Properties of the regions of a build *)

\* C25: the regions of a build are prepared one at a time, in the order of
\* their codes, and the preparation of a region never meets in the temp
\* directory a file that the preparation of an earlier region of the build
\* has written
C25_RegionsDoNotMeet ==
    \A b \in BuildIds :
        /\ builds[b].prepared = SubSeq(builds[b].codes, 1, Len(builds[b].prepared))
        /\ \A m \in builds[b].met :
              \A k \in 1..Len(builds[b].prepared) :
                  builds[b].prepared[k] # m.region => m.by # builds[b].prepared[k]

\* the second region of a build has met the layer file the first has written
SecondRegionMeetsFirst ==
    \E m \in builds["build1"].met :
        /\ Len(builds["build1"].codes) = 2
        /\ m.by = builds["build1"].codes[1] /\ m.region = builds["build1"].codes[2]

\* what the code does: between two regions the extracted shapefiles and the
\* region's geojson are removed, the .gpkg files are kept
CleanupKeepsGpkg ==
    (builds["build1"].pc \in {"prepare", "fuse"} /\ builds["build1"].prepared # <<>>) =>
        /\ \A path \in TmpPaths : path[2] \in {"geojson", "layer/"} => tmpdir[path] = NoFile
        /\ tmpdir[SharedLayerGpkg] # NoFile

----------------------------------------------------------------------------
(* Properties of builds under way together *)

\* C26: whatever the interleaving of two builds, a build never reads, writes
\* over, renames or removes an overlay output or a temporary layer raster that
\* the other build has written
C26_BuildsDoNotShareRasters ==
    \A b \in BuildIds : \A m \in builds[b].met : m.by = b

\* a build has renamed the other build's output over its own project file
ForeignOutputRenamed ==
    \E b \in BuildIds :
        /\ builds[b].pc \in {"remove", "done"}
        /\ \E m \in builds[b].met : m.path = OutputRaster /\ m.by # b

\* what the code does give: a build that runs while no other build has run
\* meets the files it wrote itself only, and ends without an error
BuildAloneMeetsNothing ==
    \A b \in BuildIds :
        (\A other \in BuildIds \ {b} : builds[other].pc = "idle") =>
            builds[b].met = {} /\ builds[b].pc # "error"

----------------------------------------------------------------------------
(* Properties of the configuration during a build *)

\* the values one build read of each configuration field are all the same
ReadsAgree(b) ==
    \A i, j \in 1..Len(builds[b].reads) :
        builds[b].reads[i][1] = builds[b].reads[j][1] =>
            builds[b].reads[i][2] = builds[b].reads[j][2]

\* C27: from the start to the end of create_project_com no command gets the
\* configuration for writing, so that every value a build reads is the same
C27_ConfigLockedForBuild ==
    \A b \in BuildIds : builds[b].writes = 0 /\ ReadsAgree(b)

\* save_settings has written the configuration between two reads of a build
SavedBetweenReads ==
    \E b \in BuildIds :
        /\ builds[b].writes > 0
        /\ builds[b].idx \in 1..(Len(ConfigReads) - 1)
        /\ settings.output_location = "elsewhere"

\* what the code does give: save_settings leaves the fields a build reads as
\* they were, so that the values a build read agree
ReadsWithinBuildAgree ==
    \A b \in BuildIds :
        /\ ReadsAgree(b)
        /\ \A i \in 1..Len(builds[b].reads) :
              builds[b].reads[i][2] = DefaultSettings[builds[b].reads[i][1]]

====
